---- MODULE Spec2Model ----
(***************************************************************************)
(* GBFS explorer: feed discovery, classification and aggregation pipeline. *)
(*                                                                         *)
(* The module holds state machines over disjoint groups of variables;      *)
(* each specification runs one of them and keeps the other groups at       *)
(* their idle value.                                                       *)
(*   SpecClassify  classifyOperatorType as a pure function                 *)
(*                 (src/src/utils/gbfsClassification.ts)                   *)
(*   SpecFetch     one fetchMany batch, SpecCache several requests against *)
(*                 the TTL cache (src/api/v2/gbfs-feeds.js)                *)
(*   SpecProxy     fetchSingle requests, one after the other               *)
(*                 (src/api/proxy.js)                                      *)
(*   SpecDebounce  calls of a debounced function and its timers            *)
(*                 (src/src/utils/useDebounce.ts)                          *)
(*   SpecMethods   requests of every method to the four endpoints          *)
(*                 (src/api/feeds.js, v2/gbfs-feeds.js, proxy.js,          *)
(*                 config.js)                                              *)
(*   SpecPipe      one run of processOperatorsInBulk for a city,           *)
(*   SpecCity      city selections of App interleaved with their runs,     *)
(*   SpecDiscover  discoverFeeds as a pure function,                       *)
(*   SpecNormalize one status result through its normalizer                *)
(*                 (src/src/app/analytics/index.ts)                        *)
(*   SpecToken     requests to the catalog endpoint around the expiry of   *)
(*                 the access token, SpecCatalog around the age limit of   *)
(*                 the catalog cache, SpecList over every method,          *)
(*                 data_type and limit, SpecRefresh handled at the same    *)
(*                 time (src/api/feeds.js)                                 *)
(***************************************************************************)
EXTENDS Integers, Sequences, FiniteSets, TLC

VARIABLES
    clFeeds,    \* classifyOperatorType: argument feedsFromDiscovery
    clVt,       \* classifyOperatorType: argument vehicleTypesData
    clResult    \* classifyOperatorType: "pending", a verdict, or "throw"

VARIABLES
    now,        \* Date.now(), in milliseconds
    cache,      \* gbfs-feeds.js: the module-level Map cacheKey -> {data, timestamp}
    reqs,       \* the fetchMany requests received so far, in arrival order
    stored      \* history: every cache.set so far, in program order

VARIABLES
    world,                \* what each operator's feeds answer; fixed
    activeCityGroup,      \* App state: the selected city group, or NoCity
    operatorDisplayData,  \* App state: systemId -> OperatorDisplayData
    effectPending,        \* the effect on [activeCityGroup] is due to run
    runs                  \* the processOperatorsInBulk calls started so far

clVars == <<clFeeds, clVt, clResult>>
fmVars == <<now, cache, reqs, stored>>
VARIABLES
    fsNow,          \* api/feeds.js: Date.now(), in milliseconds
    fsTicks,        \* the number of clock steps taken
    refreshToken,   \* process.env.MOBILITY_DATABASE_REFRESH_TOKEN is set
    upstream,       \* the catalog the Mobility Database serves; fixed
    tokenManager,   \* api/feeds.js: {accessToken, tokenExpiresAt}
    feedsCache,     \* api/feeds.js: null or {data, timestamp}
    calls           \* the GET requests in flight, and the one just answered

VARIABLES
    dfDoc,          \* discoverFeeds: argument rawGbfsJson
    dfResult        \* discoverFeeds: "pending", or what the call returns

VARIABLES
    nzFeed,         \* the feed type of a status result
    nzDoc,          \* the content of the status document of the result
    nzResult        \* what the normalizer returns and the operator's entry

ppVars == <<world, activeCityGroup, operatorDisplayData, effectPending, runs>>
fsVars == <<fsNow, fsTicks, refreshToken, upstream, tokenManager, feedsCache, calls>>
dfVars == <<dfDoc, dfResult>>
nzVars == <<nzFeed, nzDoc, nzResult>>

VARIABLES
    pxNow,          \* api/proxy.js: Date.now(), in milliseconds
    pxReq           \* the fetchSingle request being handled, or the last one

pxVars == <<pxNow, pxReq>>

VARIABLES
    mapboxToken,    \* api/config.js: process.env.MAPBOX_ACCESS_TOKEN is set
    cfReq           \* the last request to the config endpoint

cfVars == <<mapboxToken, cfReq>>

VARIABLES
    dbNow,          \* useDebouncedCallback: the time, in milliseconds
    dbDelay,        \* the delay of the latest render
    dbRef,          \* timeoutRef.current: 0 (null) or a timer id
    dbTimers,       \* the pending timers
    dbCalls,        \* history: the calls of the debounced function
    dbRuns          \* history: the invocations of the callback

dbVars == <<dbNow, dbDelay, dbRef, dbTimers, dbCalls, dbRuns>>

VARIABLES
    cachedSystems,  \* countryUtils.ts: the cached catalog
    isFetching,     \* countryUtils.ts: a request is marked in flight
    fetchPromise,   \* countryUtils.ts: 0 (null) or the promise of a request
    ldRequests,     \* the catalog requests started, by promise
    ldCallers       \* history: the promise each caller was handed

ldVars == <<cachedSystems, isFetching, fetchPromise, ldRequests, ldCallers>>

vars == <<clVars, fmVars, ppVars, fsVars, dfVars, nzVars, pxVars, cfVars, dbVars,
         ldVars>>

(***************************************************************************)
(* JavaScript values                                                       *)
(***************************************************************************)

\* A form_factor value of a vehicle type: undefined (field absent), a string
\* (possibly empty), or a number (a truthy non-string).
FFUndefined == [t |-> "undefined", s |-> ""]
FFString(s) == [t |-> "string", s |-> s]
FFNumber == [t |-> "number", s |-> "5"]

\* JS truthiness of a form_factor value.
Truthy(ff) == \/ ff.t = "number"
              \/ ff.t = "string" /\ ff.s # ""

\* The strings of the model that contain the substring "scooter".
ScooterStrings == {"scooter", "scooter_standing"}

\* String.prototype.includes(sub) on the strings of the model.
Includes(s, sub) ==
    CASE sub = "scooter" -> s \in ScooterStrings
      [] sub = "bicycle" -> s \in {"bicycle", "cargo_bicycle"}
      [] OTHER -> s = sub

\* An element of a vehicle_types array: null, or an object with form_factor.
VtNull == [isNull |-> TRUE, form_factor |-> FFUndefined]
VtEntry(ff) == [isNull |-> FALSE, form_factor |-> ff]

FormFactors == {FFUndefined, FFString("bicycle"), FFString("scooter"),
                FFString("scooter_standing"), FFNumber}

VtEntries == {VtNull} \cup {VtEntry(ff) : ff \in FormFactors}

\* A vehicleTypesData argument: undefined, an object without vehicle_types,
\* an object whose vehicle_types is a truthy non-array, or one whose
\* vehicle_types is an array of entries.
VtUndefined == [kind |-> "undefined", vehicle_types |-> <<>>]
VtNoList == [kind |-> "nolist", vehicle_types |-> <<>>]
VtNonArray == [kind |-> "nonarray", vehicle_types |-> <<>>]
VtArray(list) == [kind |-> "array", vehicle_types |-> list]

\* Longest vehicle_types array of the model.
MaxVt == 2

SeqsUpTo(S, n) == UNION {[1..k -> S] : k \in 0..n}

VtPayloads == {VtUndefined, VtNoList, VtNonArray}
              \cup {VtArray(l) : l \in SeqsUpTo(VtEntries, MaxVt)}

\* Mutant of MethodAnswer: no method is rejected.
MethodAnswerNoReject(method, own) ==
    IF method = "OPTIONS" THEN 200 ELSE 0

\* The head of every endpoint handler: the status a request is answered
\* with before anything else is done, 0 when the handler goes on. own is the
\* endpoint's method.
\*   if (req.method === 'OPTIONS') return res.status(200).end();
\*   if (req.method !== own) return res.status(405).json(...);
MethodAnswer(method, own) ==
    IF method = "OPTIONS" THEN 200
    ELSE IF method # own THEN 405
    ELSE 0

(***************************************************************************)
(* Feed maps: feed name -> URL (Record<string, string>)                    *)
(***************************************************************************)

FeedNames == {"station_information", "station_status", "vehicle_status",
              "free_bike_status", "system_information", "vehicle_types"}

STATION_FEED_NAMES == <<"station_information", "station_status">>
VEHICLE_FEED_NAMES == <<"vehicle_status", "free_bike_status">>

\* The feed map with the names S, each with a non-empty URL.
FeedMapOf(S) == [n \in S |-> "u"]

AllFeedMaps == {FeedMapOf(S) : S \in SUBSET FeedNames}

\* Object.keys(feedsFromDiscovery)
Keys(feeds) == DOMAIN feeds

Range(seq) == {seq[i] : i \in 1..Len(seq)}

(***************************************************************************)
(* classifyOperatorType                                                    *)
(***************************************************************************)

\* vehicleTypes.some(vt => vt.form_factor && vt.form_factor.includes('scooter')):
\* "true", "false", or "throw" (TypeError: property read on null, or
\* includes is not a function), evaluated left to right, stopping at the
\* first entry for which the callback is true.
RECURSIVE SomeScooter(_)
SomeScooter(list) ==
    IF list = <<>> THEN "false"
    ELSE LET vt == Head(list) IN
         IF vt.isNull THEN "throw"
         ELSE IF ~Truthy(vt.form_factor) THEN SomeScooter(Tail(list))
         ELSE IF vt.form_factor.t # "string" THEN "throw"
         ELSE IF Includes(vt.form_factor.s, "scooter") THEN "true"
         ELSE SomeScooter(Tail(list))

\* The classification by feed names alone (lines 70-96).
ClassifyByFeeds(feeds) ==
    LET availableFeeds == Keys(feeds)
        hasStationFeeds == \A n \in Range(STATION_FEED_NAMES) : n \in availableFeeds
        hasVehicleFeeds == \E n \in Range(VEHICLE_FEED_NAMES) : n \in availableFeeds
    IN IF hasStationFeeds THEN "station_based"
       ELSE IF hasVehicleFeeds THEN "free_floating"
       ELSE "unknown"

\* Mutant of classifyOperatorType: a vehicle_types list without scooters
\* forces station_based, as scooters force free_floating.
classifyWithBicycleOverride(feeds, vt) ==
    IF Keys(feeds) = {} THEN "unknown"
    ELSE IF vt.kind = "array"
         THEN LET hasScooters == SomeScooter(vt.vehicle_types) IN
              IF hasScooters = "throw" THEN "throw"
              ELSE IF hasScooters = "true" THEN "free_floating"
              ELSE IF vt.vehicle_types # <<>> THEN "station_based"
              ELSE ClassifyByFeeds(feeds)
         ELSE ClassifyByFeeds(feeds)

\* classifyOperatorType(feedsFromDiscovery, operatorName, vehicleTypesData):
\* a verdict, or "throw" when the scooter scan raises.
classifyOperatorType(feeds, vt) ==
    IF Keys(feeds) = {} THEN "unknown"
    ELSE IF vt.kind = "array"
         THEN LET hasScooters == SomeScooter(vt.vehicle_types) IN
              IF hasScooters = "throw" THEN "throw"
              ELSE IF hasScooters = "true" THEN "free_floating"
              ELSE ClassifyByFeeds(feeds)
         ELSE ClassifyByFeeds(feeds)

Verdicts == {"station_based", "free_floating", "unknown"}

(***************************************************************************)
(* SpecClassify: one call of classifyOperatorType on arbitrary arguments   *)
(***************************************************************************)

ClIdle == /\ clFeeds = FeedMapOf({})
          /\ clVt = VtUndefined
          /\ clResult = "idle"

ClInit == /\ clFeeds \in AllFeedMaps
          /\ clVt \in VtPayloads
          /\ clResult = "pending"

Classify ==
    /\ clResult = "pending"
    /\ clResult' = classifyOperatorType(clFeeds, clVt)
    /\ UNCHANGED <<clFeeds, clVt>>
    /\ UNCHANGED <<fmVars, ppVars, fsVars, dfVars, nzVars, pxVars, cfVars, dbVars, ldVars>>

(***************************************************************************)
(* fetchMany: POST /api/v2/gbfs-feeds (src/api/v2/gbfs-feeds.js)           *)
(***************************************************************************)

\* const CACHE_TTL = 60 * 1000
CACHE_TTL == 60 * 1000

\* setTimeout(() => controller.abort(), 10000)
FETCH_TIMEOUT_MS == 10000

\* The clock is observed at multiples of TimeUnit, half the cache TTL; the
\* per-item timeout is shorter than one unit, so a timer armed at one
\* instant is due at the next.
TimeUnit == CACHE_TTL \div 2

\* Number of clock steps of a behaviour.
MaxTicks == 3

\* Number of fetchMany requests of a behaviour.
MaxReqs == 2

\* Number of items of the largest batch.
MaxItems == 2

Urls == {"u1", "u2", "u3", "u4"}

\* The order of the URL strings under Array.prototype.sort (UTF-16 order).
UrlRank(u) == CASE u = "u1" -> 1 [] u = "u2" -> 2 [] u = "u3" -> 3 [] u = "u4" -> 4

Feed(name, url) == [name |-> name, url |-> url]

\* A null element of feeds; no item of the model has an empty name and URL.
NullFeed == Feed("", "")

\* req.body: without feeds, with feeds that is no array, or with a feeds
\* array.
BodyAbsent == [kind |-> "absent", feeds |-> <<>>]
BodyNonArray == [kind |-> "nonarray", feeds |-> <<>>]
BodyArray(feeds) == [kind |-> "array", feeds |-> feeds]

\* The Content-Type headers of the upstream responses.
ContentTypes == {"application/json", "text/html"}

\* The request bodies of SpecCache (req.body.feeds): two requests with the
\* same URL list under different names, and one with another URL.
RequestFeeds ==
    { <<Feed("x", "u1")>>,
      <<Feed("y", "u1")>>,
      <<Feed("x", "u2")>> }

\* The request bodies of SpecFetch: one batch of 1..MaxItems items with
\* distinct names and URLs, in either URL order.
ItemNames == <<"x", "y", "z", "w">>
ItemUrls == <<"u2", "u1", "u4", "u3">>

BatchFeeds ==
    { [i \in 1..k |-> Feed(ItemNames[i], ItemUrls[i])] : k \in 1..MaxItems }

\* The same batches with one item replaced by null.
NullBatches ==
    UNION {{[feeds EXCEPT ![i] = NullFeed] : i \in 1..Len(feeds)} : feeds \in BatchFeeds}

BatchBodies ==
    {BodyAbsent, BodyNonArray, BodyArray(<<>>)}
    \cup {BodyArray(feeds) : feeds \in BatchFeeds \cup NullBatches}

\* Insertion of u into the sorted list l.
RECURSIVE SortedInsert(_, _)
SortedInsert(u, l) ==
    IF l = <<>> THEN <<u>>
    ELSE IF UrlRank(u) <= UrlRank(Head(l)) THEN <<u>> \o l
    ELSE <<Head(l)>> \o SortedInsert(u, Tail(l))

\* list.sort()
RECURSIVE SortUrls(_)
SortUrls(l) == IF l = <<>> THEN <<>> ELSE SortedInsert(Head(l), SortUrls(Tail(l)))

\* JSON.stringify(feeds.map((f) => f.url).sort()): the sorted URL list
\* (JSON.stringify is injective on arrays of strings).
CacheKey(feeds) == SortUrls([i \in 1..Len(feeds) |-> feeds[i].url])

\* The per-item results of fetchSingleFeed.
ResultOk(feed) == [feed_name |-> feed.name, data |-> feed.url, error |-> "null"]
ResultErr(feed, msg) == [feed_name |-> feed.name, data |-> "null", error |-> msg]

\* One fetchSingleFeed call in flight: "headers" (awaiting fetch(), abort
\* timer armed), "body" (timer cleared, awaiting response.json()), "done".
\* History: contentType is the Content-Type of the response, parsed whether
\* response.json() was called.
ItemStart(feed) ==
    [st |-> "headers", result |-> ResultErr(feed, "pending"),
     contentType |-> "none", parsed |-> FALSE]

AllDone(items) == \A i \in 1..Len(items) : items[i].st = "done"

ResultsOf(items) == [i \in 1..Len(items) |-> items[i].result]

CacheSet(c, key, entry) ==
    [k \in DOMAIN c \cup {key} |-> IF k = key THEN entry ELSE c[k]]

\* Mutant of CacheFresh: an entry aged exactly CACHE_TTL is still served.
CacheFreshInclusive(c, key, t) ==
    /\ key \in DOMAIN c
    /\ t - c[key].timestamp <= CACHE_TTL

\* cached && Date.now() - cached.timestamp < CACHE_TTL
CacheFresh(c, key, t) ==
    /\ key \in DOMAIN c
    /\ t - c[key].timestamp < CACHE_TTL

FmIdle == /\ now = 0
          /\ cache = <<>>
          /\ reqs = <<>>
          /\ stored = <<>>

FmInit == FmIdle

\* The handler from its entry to the first await (lines 55-68): a body
\* without a feeds array is answered 400; a null element raises a TypeError
\* in feeds.map((f) => f.url) (line 62), which the catch answers 500; a
\* fresh cache entry answers the request; otherwise every fetchSingleFeed
\* starts (timer armed, fetch issued), and Promise.all of no promises
\* resolves at once (lines 68-72).
Arrive(body) ==
    /\ Len(reqs) < MaxReqs
    /\ LET feeds == body.feeds
           cacheKey == CacheKey(feeds)
           base == [method |-> "POST", body |-> body.kind, feeds |-> feeds, t0 |-> now,
                    seen |-> Len(stored),
                    issued |-> 0, items |-> <<>>, hit |-> FALSE,
                    pc |-> "awaiting", status |-> 0, response |-> <<>>]
       IN IF body.kind # "array"
          THEN /\ reqs' = Append(reqs, [base EXCEPT !.pc = "responded", !.status = 400])
               /\ UNCHANGED <<cache, stored>>
          ELSE IF NullFeed \in Range(feeds)
          THEN /\ reqs' = Append(reqs, [base EXCEPT !.pc = "responded", !.status = 500])
               /\ UNCHANGED <<cache, stored>>
          ELSE IF CacheFresh(cache, cacheKey, now)
          THEN /\ reqs' = Append(reqs, [base EXCEPT !.hit = TRUE,
                                          !.pc = "responded", !.status = 200,
                                          !.response = cache[cacheKey].data])
               /\ UNCHANGED <<cache, stored>>
          ELSE IF feeds = <<>>
          THEN /\ reqs' = Append(reqs, [base EXCEPT !.pc = "responded",
                                          !.status = 200, !.response = <<>>])
               /\ cache' = CacheSet(cache, cacheKey, [data |-> <<>>, timestamp |-> now])
               /\ stored' = Append(stored, [key |-> cacheKey, data |-> <<>>, timestamp |-> now])
          ELSE /\ reqs' = Append(reqs, [base EXCEPT
                              !.issued = Len(feeds),
                              !.items = [i \in 1..Len(feeds) |-> ItemStart(feeds[i])]])
               /\ UNCHANGED <<cache, stored>>
    /\ UNCHANGED now
    /\ UNCHANGED <<clVars, ppVars, fsVars, dfVars, nzVars, pxVars, cfVars, dbVars, ldVars>>

\* The handler for a request of any method (lines 42-53): the preflight
\* answer, the rejection of another method, or the handling of a POST.
Receive(method, body) ==
    IF MethodAnswer(method, "POST") # 0
    THEN /\ Len(reqs) < MaxReqs
         /\ reqs' = Append(reqs,
                [method |-> method, body |-> "none", feeds |-> <<>>, t0 |-> now,
                 seen |-> Len(stored), issued |-> 0, items |-> <<>>, hit |-> FALSE,
                 pc |-> "responded", status |-> MethodAnswer(method, "POST"),
                 response |-> <<>>])
         /\ UNCHANGED <<now, cache, stored>>
         /\ UNCHANGED <<clVars, ppVars, fsVars, dfVars, nzVars, pxVars, cfVars, dbVars, ldVars>>
    ELSE Arrive(body)

\* Item i of request r settles with `result`; when it was the last one,
\* Promise.all resolves and the handler stores and answers (lines 68-72).
Settle(r, i, result) ==
    LET items == [reqs[r].items EXCEPT ![i] = [@ EXCEPT !.st = "done", !.result = result]]
        results == ResultsOf(items)
        cacheKey == CacheKey(reqs[r].feeds)
    IN IF AllDone(items)
       THEN /\ reqs' = [reqs EXCEPT ![r] = [@ EXCEPT !.items = items,
                                  !.pc = "responded", !.status = 200,
                                  !.response = results]]
            /\ cache' = CacheSet(cache, cacheKey, [data |-> results, timestamp |-> now])
            /\ stored' = Append(stored, [key |-> cacheKey, data |-> results, timestamp |-> now])
       ELSE /\ reqs' = [reqs EXCEPT ![r].items = items]
            /\ UNCHANGED <<cache, stored>>

InState(r, i, st) ==
    /\ r \in 1..Len(reqs)
    /\ reqs[r].pc = "awaiting"
    /\ i \in 1..Len(reqs[r].items)
    /\ reqs[r].items[i].st = st

\* fetch() resolves with an ok response of the Content-Type contentType:
\* clearTimeout, then await response.json() (lines 9-27).
HeadersOk(r, i, contentType) ==
    /\ InState(r, i, "headers")
    /\ reqs' = [reqs EXCEPT ![r].items[i] =
                  [@ EXCEPT !.st = "body", !.contentType = contentType, !.parsed = TRUE]]
    /\ UNCHANGED <<now, cache, stored>>
    /\ UNCHANGED <<clVars, ppVars, fsVars, dfVars, nzVars, pxVars, cfVars, dbVars, ldVars>>

\* fetch() resolves with a non-ok response (lines 17-25).
HeadersNotOk(r, i) ==
    /\ InState(r, i, "headers")
    /\ Settle(r, i, ResultErr(reqs[r].feeds[i], "HTTP 500: Internal Server Error"))
    /\ UNCHANGED now
    /\ UNCHANGED <<clVars, ppVars, fsVars, dfVars, nzVars, pxVars, cfVars, dbVars, ldVars>>

\* fetch() rejects with a network error (lines 33-39).
FetchRejects(r, i) ==
    /\ InState(r, i, "headers")
    /\ Settle(r, i, ResultErr(reqs[r].feeds[i], "fetch failed"))
    /\ UNCHANGED now
    /\ UNCHANGED <<clVars, ppVars, fsVars, dfVars, nzVars, pxVars, cfVars, dbVars, ldVars>>

\* The abort timer fires while fetch() is pending: fetch() rejects with an
\* AbortError (lines 7, 33-39). After clearTimeout (line 17) it cannot fire.
TimerFires(r, i) ==
    /\ InState(r, i, "headers")
    /\ now >= reqs[r].t0 + FETCH_TIMEOUT_MS
    /\ Settle(r, i, ResultErr(reqs[r].feeds[i], "This operation was aborted"))
    /\ UNCHANGED now
    /\ UNCHANGED <<clVars, ppVars, fsVars, dfVars, nzVars, pxVars, cfVars, dbVars, ldVars>>

\* response.json() resolves (lines 27-32).
BodyOk(r, i) ==
    /\ InState(r, i, "body")
    /\ Settle(r, i, ResultOk(reqs[r].feeds[i]))
    /\ UNCHANGED now
    /\ UNCHANGED <<clVars, ppVars, fsVars, dfVars, nzVars, pxVars, cfVars, dbVars, ldVars>>

\* response.json() rejects: the body is not JSON (lines 27, 33-39).
BodyBad(r, i) ==
    /\ InState(r, i, "body")
    /\ Settle(r, i, ResultErr(reqs[r].feeds[i], "Unexpected token < in JSON"))
    /\ UNCHANGED now
    /\ UNCHANGED <<clVars, ppVars, fsVars, dfVars, nzVars, pxVars, cfVars, dbVars, ldVars>>

\* An armed timer whose delay has passed.
TimerDue ==
    \E r \in 1..Len(reqs) : \E i \in 1..Len(reqs[r].items) :
        /\ InState(r, i, "headers")
        /\ now >= reqs[r].t0 + FETCH_TIMEOUT_MS

\* Time passes; a due timer fires before the clock moves on.
Tick ==
    /\ now < MaxTicks * TimeUnit
    /\ ~TimerDue
    /\ now' = now + TimeUnit
    /\ UNCHANGED <<cache, reqs, stored>>
    /\ UNCHANGED <<clVars, ppVars, fsVars, dfVars, nzVars, pxVars, cfVars, dbVars, ldVars>>

(***************************************************************************)
(* fetchSingle: GET /api/proxy (src/api/proxy.js)                          *)
(***************************************************************************)

\* setTimeout(() => controller.abort(), 7000)
PROXY_TIMEOUT_MS == 7000

\* The clock is observed at multiples of PxUnit, half the timeout.
PxUnit == PROXY_TIMEOUT_MS \div 2

\* Number of clock steps of a behaviour.
MaxPxTicks == 3

Methods == {"GET", "OPTIONS", "POST"}

\* The statuses and Content-Type headers of the upstream responses
\* ("" when the header is missing).
UpstreamStatuses == {200, 404, 503}
UpstreamTypes == {"application/json; charset=utf-8", "application/geo+json",
                  "text/html", ""}

\* response.ok
ResponseOk(status) == status >= 200 /\ status <= 299

\* contentType.includes('application/json') ||
\* contentType.includes('application/geo+json')
JsonCompatible(contentType) ==
    contentType \in {"application/json; charset=utf-8", "application/geo+json"}

\* A request: its method and whether target_url is set; fetched says that
\* fetch() was called, outcome how the upstream exchange ended, status and
\* sentAt the response and its instant.
PxNone == [method |-> "none", hasTarget |-> FALSE, t0 |-> 0, pc |-> "idle",
           fetched |-> FALSE, upStatus |-> 0, contentType |-> "",
           outcome |-> "none", status |-> 0, sentAt |-> 0]

PxIdle == /\ pxNow = 0
          /\ pxReq = PxNone

PxInit == PxIdle

\* res.status(status) ... : the handler returns.
PxRespond(req, outcome, status) ==
    [req EXCEPT !.pc = "responded", !.outcome = outcome, !.status = status,
                !.sentAt = pxNow]

\* The handler from its entry to the first await (lines 3-33).
PxArrive(method, hasTarget) ==
    /\ pxReq.pc \in {"idle", "responded"}
    /\ LET req == [PxNone EXCEPT !.method = method, !.hasTarget = hasTarget,
                                 !.t0 = pxNow]
       IN pxReq' = IF MethodAnswer(method, "GET") # 0
                   THEN PxRespond(req, "none", MethodAnswer(method, "GET"))
                   ELSE IF ~hasTarget THEN PxRespond(req, "none", 400)
                   ELSE [req EXCEPT !.pc = "headers", !.fetched = TRUE]
    /\ UNCHANGED pxNow
    /\ UNCHANGED <<clVars, fmVars, ppVars, fsVars, dfVars, nzVars, cfVars, dbVars, ldVars>>

\* fetch() resolves: clearTimeout (line 35), then the handler awaits the
\* body as text (lines 38, 46) or as JSON (line 52).
PxHeaders(status, contentType) ==
    /\ pxReq.pc = "headers"
    /\ pxReq' = [pxReq EXCEPT
                    !.upStatus = status,
                    !.contentType = contentType,
                    !.pc = IF ~ResponseOk(status) THEN "errorText"
                           ELSE IF ~JsonCompatible(contentType) THEN "text"
                           ELSE "json"]
    /\ UNCHANGED pxNow
    /\ UNCHANGED <<clVars, fmVars, ppVars, fsVars, dfVars, nzVars, cfVars, dbVars, ldVars>>

\* fetch() rejects with a network error (lines 54, 60-62).
PxFetchRejects ==
    /\ pxReq.pc = "headers"
    /\ pxReq' = PxRespond(pxReq, "network", 502)
    /\ UNCHANGED pxNow
    /\ UNCHANGED <<clVars, fmVars, ppVars, fsVars, dfVars, nzVars, cfVars, dbVars, ldVars>>

\* An armed timer whose delay has passed; clearTimeout (line 35) disarms it.
PxTimerDue ==
    /\ pxReq.pc = "headers"
    /\ pxNow >= pxReq.t0 + PROXY_TIMEOUT_MS

\* The timer fires while fetch() is pending: fetch() rejects with an
\* AbortError (lines 24, 54-58).
PxTimerFires ==
    /\ PxTimerDue
    /\ pxReq' = PxRespond(pxReq, "abort", 408)
    /\ UNCHANGED pxNow
    /\ UNCHANGED <<clVars, fmVars, ppVars, fsVars, dfVars, nzVars, cfVars, dbVars, ldVars>>

\* The body arrives: response.text() resolves (lines 38-41, 46-49), or
\* response.json() does (lines 52-53).
PxBodyResolves ==
    /\ pxReq.pc \in {"errorText", "text", "json"}
    /\ pxReq' = PxRespond(pxReq, "body",
                          CASE pxReq.pc = "errorText" -> pxReq.upStatus
                            [] pxReq.pc = "text" -> 502
                            [] pxReq.pc = "json" -> 200)
    /\ UNCHANGED pxNow
    /\ UNCHANGED <<clVars, fmVars, ppVars, fsVars, dfVars, nzVars, cfVars, dbVars, ldVars>>

\* The body read rejects: the connection breaks, or the body is not JSON.
\* The error is no AbortError (lines 54, 60-62).
PxBodyRejects ==
    /\ pxReq.pc \in {"errorText", "text", "json"}
    /\ pxReq' = PxRespond(pxReq, "bodyFailed", 502)
    /\ UNCHANGED pxNow
    /\ UNCHANGED <<clVars, fmVars, ppVars, fsVars, dfVars, nzVars, cfVars, dbVars, ldVars>>

\* Time passes; a due timer fires before the clock moves on. An upstream
\* that never sends the rest of its body leaves the handler waiting.
PxTick ==
    /\ pxNow < MaxPxTicks * PxUnit
    /\ ~PxTimerDue
    /\ pxNow' = pxNow + PxUnit
    /\ UNCHANGED pxReq
    /\ UNCHANGED <<clVars, fmVars, ppVars, fsVars, dfVars, nzVars, cfVars, dbVars, ldVars>>

(***************************************************************************)
(* Status documents and their normalizers (src/src/app/analytics/index.ts) *)
(***************************************************************************)

\* A JS value read as an array: absent, a truthy non-array, or an array.
ArrAbsent == [k |-> "absent", list |-> <<>>]
ArrNonArray == [k |-> "nonarray", list |-> <<>>]
Arr(list) == [k |-> "array", list |-> list]

\* A JS value read as a number: typeof x === 'number' holds or not.
Num(n) == [isNum |-> TRUE, v |-> n]
NotNum == [isNum |-> FALSE, v |-> 0]

\* A count of the result: absent (never assigned), null, or a number.
CountAbsent == [k |-> "absent", v |-> 0]
CountNull == [k |-> "null", v |-> 0]
CountOf(n) == [k |-> "num", v |-> n]

\* An element of vehicles / bikes: null, or an object whose is_disabled and
\* is_reserved are "true", "false" or "absent".
VehicleNull == [isNull |-> TRUE, is_disabled |-> "absent", is_reserved |-> "absent"]
Vehicle(d, r) == [isNull |-> FALSE, is_disabled |-> d, is_reserved |-> r]

\* An element of station.vehicle_types_available: null, or {count}.
VtaNull == [isNull |-> TRUE, count |-> 0]
Vta(n) == [isNull |-> FALSE, count |-> n]

\* An element of stations: null, or a station object.
StationNull ==
    [isNull |-> TRUE, station_id |-> "", vehicle_types_available |-> ArrAbsent,
     num_bikes_available |-> NotNum, num_vehicles_available |-> NotNum,
     num_ebikes_available |-> NotNum, num_bikes_disabled |-> NotNum,
     num_vehicles_disabled |-> NotNum, num_docks_available |-> NotNum]

\* The content of a status document (result.data.data || result.data) with
\* the last_updated of the document.
StatusDoc(stations, vehicles, bikes) ==
    [stations |-> stations, vehicles |-> vehicles, bikes |-> bikes,
     last_updated |-> "ts"]

\* vehicles.filter(v => v.is_disabled === false && v.is_reserved === false).length,
\* or -1 when the callback raises on a null element.
RECURSIVE CountAvailable(_)
CountAvailable(list) ==
    IF list = <<>> THEN 0
    ELSE LET v == Head(list)
             rest == CountAvailable(Tail(list))
         IN IF v.isNull \/ rest < 0 THEN 0 - 1
            ELSE IF v.is_disabled = "false" /\ v.is_reserved = "false"
                 THEN rest + 1 ELSE rest

NormNull == [k |-> "null", total |-> 0, available |-> 0, docks |-> 0, stations |-> 0]
NormThrow == [k |-> "throw", total |-> 0, available |-> 0, docks |-> 0, stations |-> 0]

\* countFreeFloatingVehicles(parsedFeed, primaryFormFactor, operatorName)
countFreeFloatingVehicles(doc) ==
    LET vehicles == IF doc.vehicles.k = "array" THEN doc.vehicles
                    ELSE IF doc.bikes.k = "array" THEN doc.bikes
                    ELSE ArrAbsent
    IN IF vehicles.k # "array" THEN NormNull
       ELSE LET available == CountAvailable(vehicles.list) IN
            IF available < 0 THEN NormThrow
            ELSE [k |-> "ok", total |-> Len(vehicles.list),
                  available |-> available, docks |-> 0, stations |-> 0]

\* vehicle_types_available.reduce((sum, vt) => sum + (vt.count || 0), 0),
\* or -1 when the callback raises on a null element.
RECURSIVE SumCounts(_)
SumCounts(list) ==
    IF list = <<>> THEN 0
    ELSE LET rest == SumCounts(Tail(list)) IN
         IF Head(list).isNull \/ rest < 0 THEN 0 - 1
         ELSE Head(list).count + rest

NumOrZero(x) == IF x.isNum THEN x.v ELSE 0

\* let bikesAtStation (lines 158-173), or -1 when the reduce raises.
BikesAtStation(station) ==
    IF station.vehicle_types_available.k = "array"
    THEN SumCounts(station.vehicle_types_available.list)
    ELSE (IF station.num_bikes_available.isNum THEN station.num_bikes_available.v
          ELSE NumOrZero(station.num_vehicles_available))
         + NumOrZero(station.num_ebikes_available)

\* The stations.forEach of parseStationStatusFeed (lines 154-193) as a fold
\* over the array: the running sums and the set of ids, or "throw".
RECURSIVE FoldStations(_, _)
FoldStations(list, acc) ==
    IF list = <<>> \/ acc.k = "throw" THEN acc
    ELSE LET station == Head(list) IN
         IF station.isNull THEN [acc EXCEPT !.k = "throw"]
         ELSE LET bikesAtStation == BikesAtStation(station) IN
              IF bikesAtStation < 0 THEN [acc EXCEPT !.k = "throw"]
              ELSE FoldStations(Tail(list),
                     [k |-> "ok",
                      ids |-> acc.ids \cup {station.station_id},
                      available |-> acc.available + bikesAtStation,
                      total |-> acc.total + bikesAtStation
                                + NumOrZero(station.num_bikes_disabled)
                                + NumOrZero(station.num_vehicles_disabled),
                      docks |-> acc.docks + NumOrZero(station.num_docks_available)])

\* Mutant of parseStationStatusFeed: an empty stations array is no data.
parseStationsNullWhenEmpty(doc) ==
    IF doc.stations.k # "array" \/ doc.stations.list = <<>> THEN NormNull
    ELSE LET acc == FoldStations(doc.stations.list,
                      [k |-> "ok", ids |-> {}, available |-> 0, total |-> 0, docks |-> 0])
         IN IF acc.k = "throw" THEN NormThrow
            ELSE [k |-> "ok", total |-> acc.total, available |-> acc.available,
                  docks |-> acc.docks, stations |-> Cardinality(acc.ids)]

\* parseStationStatusFeed(parsedFeed, operatorName)
parseStationStatusFeed(doc) ==
    IF doc.stations.k # "array" THEN NormNull
    ELSE LET acc == FoldStations(doc.stations.list,
                      [k |-> "ok", ids |-> {}, available |-> 0, total |-> 0, docks |-> 0])
         IN IF acc.k = "throw" THEN NormThrow
            ELSE [k |-> "ok", total |-> acc.total, available |-> acc.available,
                  docks |-> acc.docks, stations |-> Cardinality(acc.ids)]

(***************************************************************************)
(* processOperatorsInBulk (src/src/app/analytics/index.ts): the phases as  *)
(* functions of the run's local state                                      *)
(***************************************************************************)

\* A systemId is a string, modelled as a sequence of tokens; "::" is the
\* token that feed names are joined and split with.
Sep == "::"

\* `${systemId}::${feedType}`
MakeName(systemId, feedType) == systemId \o <<Sep>> \o <<feedType>>

\* name.split('::'): the segments between the separators.
RECURSIVE Split(_)
Split(name) ==
    IF name = <<>> THEN << <<>> >>
    ELSE IF Head(name) = Sep THEN << <<>> >> \o Split(Tail(name))
    ELSE LET rest == Split(Tail(name)) IN
         << <<Head(name)>> \o rest[1] >> \o Tail(rest)

\* const [systemId, feedType] = result.feed_name.split('::')
SystemIdOf(name) == Split(name)[1]
FeedTypeOf(name) ==
    LET parts == Split(name) IN
    IF Len(parts) >= 2 /\ Len(parts[2]) = 1 THEN parts[2][1] ELSE "other"

\* name.startsWith(prefix)
StartsWith(name, prefix) ==
    /\ Len(prefix) <= Len(name)
    /\ SubSeq(name, 1, Len(prefix)) = prefix

\* The URL of a feed: the operator that serves it and the feed served.
\* EmptyUrl is the empty string, the one falsy URL.
UrlOf(systemId, feedName) == [host |-> systemId, path |-> feedName]
EmptyUrl == [host |-> <<>>, path |-> ""]
TruthyUrl(url) == url # EmptyUrl

\* feeds[name] is present and truthy.
HasFeed(feeds, name) == name \in DOMAIN feeds /\ TruthyUrl(feeds[name])

Put(map, key, val) ==
    [k \in DOMAIN map \cup {key} |-> IF k = key THEN val ELSE map[k]]

\* A Partial<OperatorDisplayData> with no field assigned. provisionalType
\* and countsFrom are history: the verdict of the first classification and
\* the feed type the counts were parsed from.
BlankData(systemId) ==
    [operatorInfo |-> systemId,
     isLoadingDiscovery |-> "absent",
     isLoadingSpecificFeed |-> "absent",
     discoveryError |-> "absent",
     operatorType |-> "absent",
     feedsSet |-> FALSE,
     feedsFromDiscovery |-> <<>>,
     vehicleTypesRaw |-> VtUndefined,
     primaryFormFactor |-> "absent",
     operatorUrlFromSystemInfo |-> "absent",
     totalVehicleCount |-> CountAbsent,
     vehicleCount |-> CountAbsent,
     stationCount |-> CountAbsent,
     docksAvailableAtStations |-> CountAbsent,
     feedError |-> "absent",
     feedLastUpdated |-> "absent",
     provisionalType |-> "absent",
     countsFrom |-> "none",
     run |-> 0]

\* The run's local state at its start (lines 386-388).
LocalStart ==
    [map |-> <<>>, order |-> <<>>, optQ |-> <<>>, statusQ |-> <<>>, thrown |-> FALSE]

\* Lines 428-438 and, again, 495-504: the status feed to queue for a
\* verdict, as a list of no or one request.
StatusFeedFor(systemId, feeds, operatorType) ==
    IF operatorType = "station_based" /\ HasFeed(feeds, "station_status")
    THEN <<Feed(MakeName(systemId, "station_status"), feeds["station_status"])>>
    ELSE IF operatorType = "free_floating"
    THEN IF HasFeed(feeds, "vehicle_status")
         THEN <<Feed(MakeName(systemId, "vehicle_status"), feeds["vehicle_status"])>>
         ELSE IF HasFeed(feeds, "free_bike_status")
         THEN <<Feed(MakeName(systemId, "free_bike_status"), feeds["free_bike_status"])>>
         ELSE <<>>
    ELSE <<>>

\* Lines 420-426: the optional feeds to queue.
OptionalFeedsFor(systemId, feeds) ==
    (IF HasFeed(feeds, "system_information")
     THEN <<Feed(MakeName(systemId, "system_information"), feeds["system_information"])>>
     ELSE <<>>)
    \o (IF HasFeed(feeds, "vehicle_types")
        THEN <<Feed(MakeName(systemId, "vehicle_types"), feeds["vehicle_types"])>>
        ELSE <<>>)

\* Mutant of DiscoveryErrorOf: a document without feeds is not an error.
DiscoveryErrorOfFetchOnly(result) ==
    IF result.kind = "error" THEN result.error
    ELSE IF result.kind = "nodata" THEN "Failed to fetch or parse gbfs.json."
    ELSE "absent"

\* data.discoveryError after one discovery result (lines 397-411): the
\* fetch error, the no-data message, the no-feeds message, or absent.
DiscoveryErrorOf(result) ==
    IF result.kind = "error" THEN result.error
    ELSE IF result.kind = "nodata" THEN "Failed to fetch or parse gbfs.json."
    ELSE IF Keys(result.doc) = {}
    THEN "Discovery failed: No valid feeds found in gbfs.json."
    ELSE "absent"

\* The body of discoveryResults.forEach for one result (lines 391-442).
\* result.doc is the feed map that discoverFeeds extracts from the document.
ProcDiscoveryResult(st, result, operators) ==
    IF \A i \in 1..Len(operators) : operators[i] # result.feed_name THEN st
    ELSE
    LET systemId == result.feed_name
        base == [BlankData(systemId) EXCEPT
                    !.isLoadingDiscovery = "false",
                    !.discoveryError = DiscoveryErrorOf(result)]
        order == IF systemId \in DOMAIN st.map THEN st.order
                 ELSE Append(st.order, systemId)
    IN IF result.kind # "doc"
       THEN [st EXCEPT !.map = Put(st.map, systemId, base), !.order = order]
       ELSE LET feeds == result.doc
                withFeeds == [base EXCEPT !.feedsSet = TRUE,
                                          !.feedsFromDiscovery = feeds]
            IN IF Keys(feeds) = {}
               THEN [st EXCEPT
                       !.map = Put(st.map, systemId,
                                   [withFeeds EXCEPT !.operatorType = "unknown",
                                                     !.provisionalType = "unknown"]),
                       !.order = order]
               ELSE LET operatorType == classifyOperatorType(feeds, VtUndefined) IN
                    [st EXCEPT
                       !.map = Put(st.map, systemId,
                                   [withFeeds EXCEPT !.operatorType = operatorType,
                                                     !.provisionalType = operatorType]),
                       !.order = order,
                       !.optQ = st.optQ \o OptionalFeedsFor(systemId, feeds),
                       !.statusQ = st.statusQ \o StatusFeedFor(systemId, feeds, operatorType)]

\* discoveryResults.forEach (lines 391-442)
RECURSIVE ProcDiscovery(_, _, _)
ProcDiscovery(st, results, operators) ==
    IF results = <<>> THEN st
    ELSE ProcDiscovery(ProcDiscoveryResult(st, Head(results), operators),
                       Tail(results), operators)

\* formFactors.some(ff => ff.includes(sub)) over the truthy form factors of
\* the list: "true", "false" or "throw" (includes is not a function).
RECURSIVE SomeIncludes(_, _)
SomeIncludes(list, sub) ==
    IF list = <<>> THEN "false"
    ELSE LET ff == Head(list).form_factor IN
         IF ~Truthy(ff) THEN SomeIncludes(Tail(list), sub)
         ELSE IF ff.t # "string" THEN "throw"
         ELSE IF Includes(ff.s, sub) THEN "true"
         ELSE SomeIncludes(Tail(list), sub)

\* Lines 462-466: the primary form factor of a vehicle_types array, "absent"
\* when none matches, "throw" when vt.form_factor is read on a null element
\* or includes is called on a non-string.
PrimaryFormFactor(list) ==
    IF \E i \in 1..Len(list) : list[i].isNull THEN "throw"
    ELSE LET scooter == SomeIncludes(list, "scooter") IN
         IF scooter = "throw" THEN "throw"
         ELSE IF scooter = "true" THEN "scooter"
         ELSE IF SomeIncludes(list, "bicycle") = "true" THEN "bicycle"
         ELSE "absent"

\* The body of optionalFeedResults.forEach for one result (lines 448-468).
ProcOptionalResult(st, result) ==
    LET systemId == SystemIdOf(result.feed_name)
        feedType == FeedTypeOf(result.feed_name)
    IN IF systemId \notin DOMAIN st.map \/ result.kind # "doc" THEN st
       ELSE LET data == st.map[systemId] IN
            IF feedType = "system_information"
            THEN [st EXCEPT !.map[systemId].operatorUrlFromSystemInfo = result.doc.url]
            ELSE IF feedType = "vehicle_types"
            THEN LET raw == [data EXCEPT !.vehicleTypesRaw = result.doc] IN
                 IF result.doc.kind # "array"
                 THEN [st EXCEPT !.map[systemId] = raw]
                 ELSE LET pff == PrimaryFormFactor(result.doc.vehicle_types) IN
                      IF pff = "throw"
                      THEN [st EXCEPT !.map[systemId] = raw, !.thrown = TRUE]
                      ELSE [st EXCEPT !.map[systemId] =
                               [raw EXCEPT !.primaryFormFactor =
                                   IF pff = "absent" THEN data.primaryFormFactor ELSE pff]]
            ELSE st

\* optionalFeedResults.forEach (lines 448-468); a raised error ends it.
RECURSIVE ProcOptional(_, _)
ProcOptional(st, results) ==
    IF results = <<>> \/ st.thrown THEN st
    ELSE ProcOptional(ProcOptionalResult(st, Head(results)), Tail(results))

\* Mutant of RemoveFirstOf: the request at the head of the queue is removed,
\* whichever operator it is for.
RemoveHeadOf(queue, systemId) ==
    IF queue = <<>> THEN <<>> ELSE Tail(queue)

\* allStatusFeedsToFetch after findIndex / splice (lines 490-493): the first
\* request whose name starts with `${systemId}::` is removed.
RECURSIVE RemoveFirstOf(_, _)
RemoveFirstOf(queue, systemId) ==
    IF queue = <<>> THEN <<>>
    ELSE IF StartsWith(Head(queue).name, systemId \o <<Sep>>) THEN Tail(queue)
    ELSE <<Head(queue)>> \o RemoveFirstOf(Tail(queue), systemId)

\* Mutant of Requeue: the verdict changes but the queued status request of
\* the old verdict is kept.
RequeueKeepsOld(statusQ, systemId, feeds, newOperatorType) == statusQ

\* Lines 486-505: the status queue after the operator's verdict changed.
Requeue(statusQ, systemId, feeds, newOperatorType) ==
    RemoveFirstOf(statusQ, systemId) \o StatusFeedFor(systemId, feeds, newOperatorType)

\* The body of the reclassification loop for one operator (lines 472-508).
ReclassifyOne(st, systemId) ==
    LET data == st.map[systemId] IN
    IF data.operatorType = "absent" \/ ~data.feedsSet
       \/ data.vehicleTypesRaw.kind = "undefined"
    THEN st
    ELSE LET newOperatorType ==
                 classifyOperatorType(data.feedsFromDiscovery, data.vehicleTypesRaw)
         IN IF newOperatorType = "throw" THEN [st EXCEPT !.thrown = TRUE]
            ELSE IF newOperatorType = data.operatorType THEN st
            ELSE [st EXCEPT
                    !.map[systemId].operatorType = newOperatorType,
                    !.statusQ = Requeue(st.statusQ, data.operatorInfo,
                                        data.feedsFromDiscovery, newOperatorType)]

\* Mutant of Reclassify: only the first operator is reclassified before the
\* status batch is issued.
ReclassifyFirstOnly(st, order) ==
    IF order = <<>> \/ st.thrown THEN st
    ELSE ReclassifyOne(st, Head(order))

\* Object.values(operatorDataMap).forEach (lines 472-508), in insertion order.
RECURSIVE Reclassify(_, _)
Reclassify(st, order) ==
    IF order = <<>> \/ st.thrown THEN st
    ELSE Reclassify(ReclassifyOne(st, Head(order)), Tail(order))

\* x ?? null of a normalizer's count.
CountOrNull(norm, n) == IF norm.k = "ok" THEN CountOf(n) ELSE CountNull

\* The body of statusFeedResults.forEach for one result (lines 513-544).
ProcStatusResult(st, result) ==
    LET systemId == SystemIdOf(result.feed_name)
        feedType == FeedTypeOf(result.feed_name)
    IN IF systemId \notin DOMAIN st.map THEN st
       ELSE IF result.kind = "error"
       THEN [st EXCEPT !.map[systemId].feedError = result.error]
       ELSE IF result.kind = "nodata"
       THEN [st EXCEPT !.map[systemId].feedError = "Failed to fetch status feed."]
       ELSE LET data == st.map[systemId] IN
            IF feedType = "station_status"
            THEN LET stationData == parseStationStatusFeed(result.doc) IN
                 IF stationData.k = "throw" THEN [st EXCEPT !.thrown = TRUE]
                 ELSE [st EXCEPT !.map[systemId] = [data EXCEPT
                         !.totalVehicleCount = CountOrNull(stationData, stationData.total),
                         !.vehicleCount = CountOrNull(stationData, stationData.available),
                         !.stationCount = CountOrNull(stationData, stationData.stations),
                         !.docksAvailableAtStations = CountOrNull(stationData, stationData.docks),
                         !.countsFrom = feedType,
                         !.feedLastUpdated = result.doc.last_updated]]
            ELSE IF feedType \in {"vehicle_status", "free_bike_status"}
            THEN LET vehicleData == countFreeFloatingVehicles(result.doc) IN
                 IF vehicleData.k = "throw" THEN [st EXCEPT !.thrown = TRUE]
                 ELSE [st EXCEPT !.map[systemId] = [data EXCEPT
                         !.totalVehicleCount = CountOrNull(vehicleData, vehicleData.total),
                         !.vehicleCount = CountOrNull(vehicleData, vehicleData.available),
                         !.countsFrom = feedType,
                         !.feedLastUpdated = result.doc.last_updated]]
            ELSE [st EXCEPT !.map[systemId].feedLastUpdated = result.doc.last_updated]

\* Mutant of ProcStatus: the i-th result is attributed to the i-th operator
\* of the run, whatever its name says.
RECURSIVE ProcStatusFrom(_, _, _)
ProcStatusFrom(st, results, i) ==
    IF results = <<>> \/ st.thrown THEN st
    ELSE LET result == Head(results)
             named == IF i > Len(st.order) THEN result
                      ELSE [result EXCEPT !.feed_name =
                               MakeName(st.order[i], FeedTypeOf(result.feed_name))]
         IN ProcStatusFrom(ProcStatusResult(st, named), Tail(results), i + 1)

ProcStatusByPosition(st, results) == ProcStatusFrom(st, results, 1)

\* statusFeedResults.forEach (lines 513-544); a raised error ends it.
RECURSIVE ProcStatus(_, _)
ProcStatus(st, results) ==
    IF results = <<>> \/ st.thrown THEN st
    ELSE ProcStatus(ProcStatusResult(st, Head(results)), Tail(results))

\* {...prev, ...data}: a field of data that was assigned replaces prev's.
Over(prevField, dataField, absent) ==
    IF dataField = absent THEN prevField ELSE dataField

\* Mutant of OverCount: a count of the run is added to the count the entry
\* holds.
OverCountAdds(prevField, dataField) ==
    IF dataField.k = "num" /\ prevField.k = "num"
    THEN CountOf(prevField.v + dataField.v)
    ELSE Over(prevField, dataField, CountAbsent)

\* {...prev, ...data} for a count field.
OverCount(prevField, dataField) == Over(prevField, dataField, CountAbsent)

\* Lines 550-555: the entry written for one operator by the final update.
\* run is history: the run that wrote the entry.
Merged(prev, data, runId) ==
    [operatorInfo |-> data.operatorInfo,
     isLoadingDiscovery |-> "false",
     isLoadingSpecificFeed |-> "false",
     discoveryError |-> Over(prev.discoveryError, data.discoveryError, "absent"),
     operatorType |-> Over(prev.operatorType, data.operatorType, "absent"),
     feedsSet |-> prev.feedsSet \/ data.feedsSet,
     feedsFromDiscovery |-> IF data.feedsSet THEN data.feedsFromDiscovery
                            ELSE prev.feedsFromDiscovery,
     vehicleTypesRaw |-> Over(prev.vehicleTypesRaw, data.vehicleTypesRaw, VtUndefined),
     primaryFormFactor |-> Over(prev.primaryFormFactor, data.primaryFormFactor, "absent"),
     operatorUrlFromSystemInfo |->
         Over(prev.operatorUrlFromSystemInfo, data.operatorUrlFromSystemInfo, "absent"),
     totalVehicleCount |-> OverCount(prev.totalVehicleCount, data.totalVehicleCount),
     vehicleCount |-> OverCount(prev.vehicleCount, data.vehicleCount),
     stationCount |-> OverCount(prev.stationCount, data.stationCount),
     docksAvailableAtStations |->
         OverCount(prev.docksAvailableAtStations, data.docksAvailableAtStations),
     feedError |-> Over(prev.feedError, data.feedError, "absent"),
     feedLastUpdated |-> Over(prev.feedLastUpdated, data.feedLastUpdated, "absent"),
     provisionalType |-> Over(prev.provisionalType, data.provisionalType, "absent"),
     countsFrom |-> Over(prev.countsFrom, data.countsFrom, "none"),
     run |-> runId]

\* setOperatorDisplayData(prev => ...) of the final update (lines 547-558).
FinalUpdate(prev, map, runId) ==
    [systemId \in DOMAIN prev \cup DOMAIN map |->
        IF systemId \in DOMAIN map
        THEN Merged(IF systemId \in DOMAIN prev THEN prev[systemId]
                    ELSE BlankData(systemId),
                    map[systemId], runId)
        ELSE prev[systemId]]

(***************************************************************************)
(* The operators of a city and what their feeds answer                     *)
(***************************************************************************)

\* The systemIds of the catalog: "a", "ab" and "c".
SysA == <<"a">>
SysAB == <<"a", "b">>
SysC == <<"c">>

\* groupSystemsByCity(allSystems): city X has two operators, city Y one.
NoCity == [city |-> "", operators |-> <<>>]
CityX == [city |-> "X", operators |-> <<SysA, SysAB>>]
CityY == [city |-> "Y", operators |-> <<SysC>>]
Cities == {CityX, CityY}

\* What a URL answers to one fetch: an error, falsy JSON, or a document.
OutErr == [kind |-> "error", error |-> "HTTP 500", doc |-> <<>>]
OutNoData == [kind |-> "nodata", error |-> "null", doc |-> <<>>]
OutDoc(doc) == [kind |-> "doc", error |-> "null", doc |-> doc]

\* The feed map discovered for an operator: the names S, each with its URL,
\* the names in E with an empty URL.
FeedsOf(systemId, S, E) ==
    [n \in S \cup E |-> IF n \in E THEN EmptyUrl ELSE UrlOf(systemId, n)]

StationPair == {"station_information", "station_status"}

\* The feed maps of the model, by their names.
PipeFeedSets ==
    {{},
     StationPair,
     {"free_bike_status"},
     {"vehicle_types"},
     {"vehicle_status", "vehicle_types"},
     StationPair \cup {"vehicle_types"},
     StationPair \cup {"vehicle_status", "vehicle_types"},
     StationPair \cup {"vehicle_status", "free_bike_status", "vehicle_types"},
     StationPair \cup {"free_bike_status", "vehicle_types", "system_information"}}

\* vehicle_types answers: scooters, bicycles only, no list, a null element,
\* a numeric form_factor, or a failed fetch.
PipeVtOutcomes ==
    {OutDoc(VtArray(<<VtEntry(FFString("bicycle")), VtEntry(FFString("scooter"))>>)),
     OutDoc(VtArray(<<VtEntry(FFString("bicycle"))>>)),
     OutDoc(VtNoList),
     OutDoc(VtArray(<<VtNull>>)),
     OutDoc(VtArray(<<VtEntry(FFNumber)>>)),
     OutErr}

Station(id, bikes, disabled, docks) ==
    [isNull |-> FALSE, station_id |-> id, vehicle_types_available |-> ArrAbsent,
     num_bikes_available |-> Num(bikes), num_vehicles_available |-> NotNum,
     num_ebikes_available |-> NotNum, num_bikes_disabled |-> Num(disabled),
     num_vehicles_disabled |-> NotNum, num_docks_available |-> Num(docks)]

\* station_status answers: two stations, no stations array, a null element,
\* or a failed fetch.
PipeSsOutcomes ==
    {OutDoc(StatusDoc(Arr(<<Station("s1", 2, 1, 3), Station("s2", 1, 0, 4)>>),
                      ArrAbsent, ArrAbsent)),
     OutDoc(StatusDoc(ArrAbsent, ArrAbsent, ArrAbsent)),
     OutDoc(StatusDoc(Arr(<<StationNull>>), ArrAbsent, ArrAbsent)),
     OutErr}

\* vehicle_status / free_bike_status answers: three vehicles (one reserved),
\* a null element, or falsy JSON.
PipeVsOutcomes ==
    {OutDoc(StatusDoc(ArrAbsent, ArrAbsent,
                      Arr(<<Vehicle("false", "false"), Vehicle("false", "true"),
                            Vehicle("false", "false")>>))),
     OutDoc(StatusDoc(ArrAbsent, Arr(<<VehicleNull>>), ArrAbsent)),
     OutNoData}

OutSi == OutDoc([url |-> "site"])

\* What one operator's feeds answer: the gbfs.json fetch fails, yields falsy
\* JSON, or yields a feed map; a feed that is not in the map answers with its
\* first outcome (it is never asked).
OperatorWorld(disc, vt, ss, vs) ==
    [disc |-> disc, si |-> OutSi, vt |-> vt, ss |-> ss, vs |-> vs]

FirstVt == OutErr
FirstSs == OutErr
FirstVs == OutNoData

\* A feed outcome is varied only when the operator's feed map has the feed
\* with a URL.
Relevant(w) ==
    LET feeds == w.disc.doc IN
    /\ ~HasFeed(feeds, "vehicle_types") => w.vt = FirstVt
    /\ ~HasFeed(feeds, "station_status") => w.ss = FirstSs
    /\ ~HasFeed(feeds, "vehicle_status") /\ ~HasFeed(feeds, "free_bike_status")
          => w.vs = FirstVs

OperatorWorlds(feedMaps, vts, sss, vss) ==
    {OperatorWorld(OutErr, FirstVt, FirstSs, FirstVs),
     OperatorWorld(OutNoData, FirstVt, FirstSs, FirstVs)}
    \cup
    {w \in {OperatorWorld(OutDoc(feeds), vt, ss, vs) :
                feeds \in feedMaps, vt \in vts, ss \in sss, vs \in vss} :
        Relevant(w)}

\* The first operator of city X ranges over every feed map and outcome.
WorldsOfA ==
    LET worlds ==
            OperatorWorlds({FeedsOf(SysA, S, {}) : S \in PipeFeedSets}
                               \cup {FeedsOf(SysA, StationPair, {"station_status"})},
                           PipeVtOutcomes, PipeSsOutcomes, PipeVsOutcomes)
    IN worlds \cup {[w EXCEPT !.si = OutErr] :
                       w \in {v \in worlds : HasFeed(v.disc.doc, "system_information")}}

\* The other operators range over fewer.
FewWorlds(systemId) ==
    OperatorWorlds({FeedsOf(systemId, S, {}) :
                       S \in {{}, StationPair,
                              StationPair \cup {"vehicle_status", "vehicle_types"}}},
                   {vt \in PipeVtOutcomes :
                       vt.kind = "doc" /\ vt.doc.kind = "array"
                       /\ vt.doc.vehicle_types[1].form_factor.t # "number"},
                   {ss \in PipeSsOutcomes : ss.kind = "doc" /\ ss.doc.stations.k = "array"},
                   {vs \in PipeVsOutcomes : vs.kind = "doc" /\ vs.doc.bikes.k = "array"})

\* The worlds of SpecPipe.
PipeWorlds ==
    {[s \in {SysA, SysAB} |-> IF s = SysA THEN a ELSE ab] :
        a \in WorldsOfA, ab \in FewWorlds(SysAB)}

\* The answers of the v2 endpoint to one batch (src/api/v2/gbfs-feeds.js,
\* line 68): one result per request, under the request's name.
Serve(w, url) ==
    LET o == w[url.host] IN
    CASE url.path = "gbfs" -> o.disc
      [] url.path = "system_information" -> o.si
      [] url.path = "vehicle_types" -> o.vt
      [] url.path = "station_status" -> o.ss
      [] OTHER -> o.vs

FeedResult(name, out) ==
    [feed_name |-> name, kind |-> out.kind, error |-> out.error, doc |-> out.doc]

Answer(queue, w) ==
    [i \in 1..Len(queue) |-> FeedResult(queue[i].name, Serve(w, queue[i].url))]

\* fetchAllGbfsFeedsConcurrently's catch (lines 52-60): every feed of the
\* batch carries the error.
AllFailed(queue) ==
    [i \in 1..Len(queue) |->
        [feed_name |-> queue[i].name, kind |-> "error",
         error |-> "Concurrent feed fetch failed", doc |-> <<>>]]

\* fetchAllGbfsFeedsConcurrently(feeds), the request failing as a whole or not.
fetchAllGbfsFeedsConcurrently(queue, w, failed) ==
    IF failed THEN AllFailed(queue) ELSE Answer(queue, w)

\* discoveryFeedsToFetch (lines 379-382)
DiscoveryFeeds(operators) ==
    [i \in 1..Len(operators) |-> Feed(operators[i], UrlOf(operators[i], "gbfs"))]

(***************************************************************************)
(* App: the city selection and the runs of processOperatorsInBulk          *)
(***************************************************************************)

\* Longest list of runs started in SpecCity.
MaxRuns == 2

\* initialData[op.systemId] (lines 348-357)
InitialData(systemId) ==
    [BlankData(systemId) EXCEPT
        !.operatorType = "unknown",
        !.isLoadingDiscovery = "true",
        !.discoveryError = "null",
        !.isLoadingSpecificFeed = "false",
        !.feedError = "null",
        !.vehicleCount = CountNull,
        !.stationCount = CountNull]

\* The initial loading state of fetchAllOperatorData (lines 565-575).
LoadingState(prev, operators) ==
    [systemId \in DOMAIN prev \cup Range(operators) |->
        IF systemId \in Range(operators)
        THEN [(IF systemId \in DOMAIN prev THEN prev[systemId]
               ELSE BlankData(systemId))
              EXCEPT !.isLoadingDiscovery = "true"]
        ELSE prev[systemId]]

\* A call of processOperatorsInBulk awaiting its discovery batch. History:
\* discovery is discoveryResults, optional is optionalFeedResults, asked the
\* requests of the batches issued so far, failed whether a batch of the run
\* failed as a whole.
NewRun(operators) ==
    [operators |-> operators, pc |-> "discovery", local |-> LocalStart,
     discovery |-> <<>>, optional |-> <<>>,
     asked |-> DiscoveryFeeds(operators), failed |-> FALSE]

PpIdle ==
    /\ world = <<>>
    /\ activeCityGroup = NoCity
    /\ operatorDisplayData = <<>>
    /\ effectPending = FALSE
    /\ runs = <<>>

\* The effect on [location.search, allSystems] with a ?city that matches
\* (lines 318-370): a new group object is set and the display data replaced.
SelectCity(group) ==
    /\ ~effectPending
    /\ Len(runs) < MaxRuns
    /\ activeCityGroup' = group
    /\ operatorDisplayData' =
           [systemId \in Range(group.operators) |-> InitialData(systemId)]
    /\ effectPending' = TRUE
    /\ UNCHANGED <<world, runs>>
    /\ UNCHANGED <<clVars, fmVars, fsVars, dfVars, nzVars, pxVars, cfVars, dbVars, ldVars>>

\* The same effect without ?city or without a match (lines 322-326, 361-364).
ClearCity ==
    /\ ~effectPending
    /\ activeCityGroup' = NoCity
    /\ operatorDisplayData' = <<>>
    /\ effectPending' = (activeCityGroup # NoCity)
    /\ UNCHANGED <<world, runs>>
    /\ UNCHANGED <<clVars, fmVars, fsVars, dfVars, nzVars, pxVars, cfVars, dbVars, ldVars>>

\* The effect on [activeCityGroup] (lines 374-581) up to the first await of
\* processOperatorsInBulk.
StartRun ==
    /\ effectPending
    /\ effectPending' = FALSE
    /\ IF activeCityGroup = NoCity
       THEN UNCHANGED <<operatorDisplayData, runs>>
       ELSE /\ operatorDisplayData' =
                   LoadingState(operatorDisplayData, activeCityGroup.operators)
            /\ runs' = Append(runs, NewRun(activeCityGroup.operators))
    /\ UNCHANGED <<world, activeCityGroup>>
    /\ UNCHANGED <<clVars, fmVars, fsVars, dfVars, nzVars, pxVars, cfVars, dbVars, ldVars>>

\* Lines 384-442: the discovery batch returns and its results are processed.
DiscoveryDone(r) ==
    /\ r \in 1..Len(runs)
    /\ runs[r].pc = "discovery"
    /\ \E failed \in BOOLEAN :
         LET run == runs[r]
             queue == DiscoveryFeeds(run.operators)
             results == fetchAllGbfsFeedsConcurrently(queue, world, failed)
             discovered == ProcDiscovery(LocalStart, results, run.operators)
         IN runs' = [runs EXCEPT ![r] =
                [run EXCEPT !.pc = "optional",
                            !.local = discovered,
                            !.discovery = results,
                            !.asked = run.asked \o discovered.optQ,
                            !.failed = failed]]
    /\ UNCHANGED <<world, activeCityGroup, operatorDisplayData, effectPending>>
    /\ UNCHANGED <<clVars, fmVars, fsVars, dfVars, nzVars, pxVars, cfVars, dbVars, ldVars>>

\* Lines 445-508: the optional batch returns, its results are processed and
\* the operators reclassified; an error raised on the way rejects the call.
OptionalDone(r) ==
    /\ r \in 1..Len(runs)
    /\ runs[r].pc = "optional"
    /\ \E failed \in BOOLEAN :
         LET run == runs[r]
             queue == run.local.optQ
             results == fetchAllGbfsFeedsConcurrently(queue, world, failed)
             processed == ProcOptional(run.local, results)
             reclassified == Reclassify(processed, processed.order)
         IN runs' = [runs EXCEPT ![r] =
                [run EXCEPT !.pc = IF reclassified.thrown THEN "rejected" ELSE "status",
                            !.local = reclassified,
                            !.optional = results,
                            !.asked = IF reclassified.thrown THEN run.asked
                                      ELSE run.asked \o reclassified.statusQ,
                            !.failed = run.failed \/ failed]]
    /\ UNCHANGED <<world, activeCityGroup, operatorDisplayData, effectPending>>
    /\ UNCHANGED <<clVars, fmVars, fsVars, dfVars, nzVars, pxVars, cfVars, dbVars, ldVars>>

\* Lines 511-558: the status batch returns, its results are processed and
\* the final update merges the run's data into the state.
StatusDone(r) ==
    /\ r \in 1..Len(runs)
    /\ runs[r].pc = "status"
    /\ \E failed \in BOOLEAN :
         LET run == runs[r]
             queue == run.local.statusQ
             results == fetchAllGbfsFeedsConcurrently(queue, world, failed)
             processed == ProcStatus(run.local, results)
         IN /\ runs' = [runs EXCEPT ![r] =
                   [run EXCEPT !.pc = IF processed.thrown THEN "rejected" ELSE "done",
                               !.local = processed,
                               !.failed = run.failed \/ failed]]
            /\ operatorDisplayData' =
                   IF processed.thrown THEN operatorDisplayData
                   ELSE FinalUpdate(operatorDisplayData, processed.map, r)
    /\ UNCHANGED <<world, activeCityGroup, effectPending>>
    /\ UNCHANGED <<clVars, fmVars, fsVars, dfVars, nzVars, pxVars, cfVars, dbVars, ldVars>>

\* processOperatorsInBulk(operators) with no batch failing as a whole: the
\* run's local state when it ends or raises.
RunPhases(operators, w) ==
    LET discovered == ProcDiscovery(LocalStart, Answer(DiscoveryFeeds(operators), w),
                                    operators)
        processed == ProcOptional(discovered, Answer(discovered.optQ, w))
        reclassified == Reclassify(processed, processed.order)
    IN IF reclassified.thrown THEN reclassified
       ELSE ProcStatus(reclassified, Answer(reclassified.statusQ, w))

\* The entry of the state for an operator after a run of the operator alone.
AloneEntry(systemId, w) ==
    FinalUpdate(LoadingState([s \in {systemId} |-> InitialData(s)], <<systemId>>),
                RunPhases(<<systemId>>, w).map, 1)[systemId]

(***************************************************************************)
(* One status result of an operator (src/src/app/analytics/index.ts)       *)
(***************************************************************************)

\* The station_id of a station that has none: undefined, a member of the
\* Set of ids like any other value.
StationIdAbsent == "undefined"

\* A station object by its fields.
StationOf(id, vta, bikes, vehicles, ebikes, bikesDisabled, vehiclesDisabled, docks) ==
    [isNull |-> FALSE, station_id |-> id, vehicle_types_available |-> vta,
     num_bikes_available |-> bikes, num_vehicles_available |-> vehicles,
     num_ebikes_available |-> ebikes, num_bikes_disabled |-> bikesDisabled,
     num_vehicles_disabled |-> vehiclesDisabled, num_docks_available |-> docks]

\* operatorDataMap when the status results arrive, for the one operator a
\* whose status feed is feedType (lines 395-509).
NzStart(feedType) ==
    [LocalStart EXCEPT
        !.map = [s \in {SysA} |->
                   [BlankData(SysA) EXCEPT
                       !.isLoadingDiscovery = "false",
                       !.operatorType = IF feedType = "station_status"
                                        THEN "station_based" ELSE "free_floating"]],
        !.order = <<SysA>>]

NzNone == [state |-> "idle", norm |-> NormNull, thrown |-> FALSE, entry |-> BlankData(SysA)]
NzPending == [NzNone EXCEPT !.state = "pending"]

NzIdle ==
    /\ nzFeed = "none"
    /\ nzDoc = StatusDoc(ArrAbsent, ArrAbsent, ArrAbsent)
    /\ nzResult = NzNone

\* The status result of the operator is processed (lines 513-543) and the
\* final update written (lines 547-558), unless the processing raises. norm
\* is what the normalizer of the feed type returns for the document.
Normalize ==
    /\ nzResult.state = "pending"
    /\ LET result == FeedResult(MakeName(SysA, nzFeed), OutDoc(nzDoc))
           st == ProcStatusResult(NzStart(nzFeed), result)
           prev == LoadingState([s \in {SysA} |-> InitialData(s)], <<SysA>>)
       IN nzResult' =
            [state |-> "done",
             norm |-> IF nzFeed = "station_status" THEN parseStationStatusFeed(nzDoc)
                      ELSE countFreeFloatingVehicles(nzDoc),
             thrown |-> st.thrown,
             entry |-> IF st.thrown THEN prev[SysA]
                       ELSE FinalUpdate(prev, st.map, 1)[SysA]]
    /\ UNCHANGED <<nzFeed, nzDoc>>
    /\ UNCHANGED <<clVars, fmVars, ppVars, fsVars, dfVars, pxVars, cfVars, dbVars, ldVars>>

(***************************************************************************)
(* The catalog endpoint (src/api/feeds.js)                                 *)
(***************************************************************************)

CACHE_DURATION_HOURS == 6
PAGE_LIMIT == 1000
DEFAULT_EXPIRES_IN == 3600
MINUTE == 60 * 1000
bufferTime == 5 * 60 * 1000

\* tokenManager / feedsCache with nothing stored. An access token is a
\* positive number, 0 is null; tokenExpiresAt is a time, -1 is null.
NoToken == [accessToken |-> 0, tokenExpiresAt |-> 0 - 1]
NoCache == [present |-> FALSE, data |-> <<>>, timestamp |-> 0]

\* Mutant of isTokenExpired: the token is expired only after the buffer
\* has begun.
isTokenExpiredStrict(tm, t) ==
    IF tm.accessToken = 0 \/ tm.tokenExpiresAt < 0 THEN TRUE
    ELSE t > tm.tokenExpiresAt - bufferTime

\* isTokenExpired() at time t.
isTokenExpired(tm, t) ==
    IF tm.accessToken = 0 \/ tm.tokenExpiresAt < 0 THEN TRUE
    ELSE t >= tm.tokenExpiresAt - bufferTime

\* Mutant of isCacheValid: a catalog of exactly the cache duration is valid.
isCacheValidInclusive(fc, t) ==
    IF ~fc.present THEN FALSE
    ELSE t - fc.timestamp <= CACHE_DURATION_HOURS * 60 * 60 * 1000

\* isCacheValid() at time t.
isCacheValid(fc, t) ==
    IF ~fc.present THEN FALSE
    ELSE t - fc.timestamp < CACHE_DURATION_HOURS * 60 * 60 * 1000

\* A record of the catalog with id i (a positive number), written as i when
\* its data_type is 'gbfs' and as -i when it is another.
CatalogFeed(i, foreign) == IF i \in foreign THEN 0 - i ELSE i

Min(a, b) == IF a < b THEN a ELSE b

\* The body the upstream answers for limit and offset: the records as an
\* array, or an object that holds them under results.
PageOf(up, limit, offset) ==
    LET n == IF up.count > offset THEN Min(limit, up.count - offset) ELSE 0 IN
    [shape |-> IF up.wrapped THEN "results" ELSE "array",
     items |-> [i \in 1..n |-> CatalogFeed(offset + i, up.foreign)]]

\* Array.isArray(data) ? data : data.results || data.feeds || data.data || []
PageFeeds(data) ==
    IF data.shape \in {"array", "results"} THEN data.items ELSE <<>>

\* processFeeds(feeds): the gbfs records, each as a system, written as its
\* systemId (the id of the record).
IsGbfs(feed) == feed > 0
processFeeds(feeds) == SelectSeq(feeds, IsGbfs)

\* Mutant of Limited: systems.slice(-limit), the last entries.
LimitedFromEnd(systems, limit) ==
    IF limit > 0
    THEN SubSeq(systems, Len(systems) - Min(limit, Len(systems)) + 1, Len(systems))
    ELSE systems

\* systems.slice(0, limit) when limit is given and positive (0: not given).
Limited(systems, limit) ==
    IF limit > 0 THEN SubSeq(systems, 1, Min(limit, Len(systems))) ELSE systems

\* The responses of the handler.
NoResponse == [status |-> 0, systems |-> <<>>, total_count |-> 0, cache_hit |-> FALSE]
Ok200(systems, hit) ==
    [status |-> 200, systems |-> systems, total_count |-> Len(systems), cache_hit |-> hit]
Error500 == [status |-> 500, systems |-> <<>>, total_count |-> 0, cache_hit |-> FALSE]
Preflight200 == [status |-> 200, systems |-> <<>>, total_count |-> 0, cache_hit |-> FALSE]
Error405 == [status |-> 405, systems |-> <<>>, total_count |-> 0, cache_hit |-> FALSE]

\* The data_type of a record of the catalog.
DataTypeOf(feed) == IF feed > 0 THEN "gbfs" ELSE "gtfs"

\* A GET request being handled. pc: "token" (awaiting the token exchange),
\* "page" (awaiting the page at offset), "done"; "idle" is no request.
\* History: t0, tokenAtStart, cachedAtStart and stampAtStart are the time
\* and the stored values when the request arrived, exchanges counts its
\* token exchanges, offsets lists the offsets of its page requests, failedAt
\* is the upstream request that was answered with a non-success status,
\* method and dataType are req.method and req.query.data_type, pageType is
\* the data_type of the URLs of its page requests.
NewCall(force, limit, t, tm, fc) ==
    [method |-> "GET", dataType |-> "gbfs", pageType |-> "none",
     forceRefresh |-> force, limit |-> limit, pc |-> "done",
     accessToken |-> 0, offset |-> 0, allFeeds |-> <<>>, response |-> NoResponse,
     t0 |-> t, tokenAtStart |-> tm,
     cachedAtStart |-> fc.present, stampAtStart |-> fc.timestamp,
     exchanges |-> 0, offsets |-> <<>>, failedAt |-> "none"]

NoCall == [NewCall(FALSE, 0, 0, NoToken, NoCache) EXCEPT !.pc = "idle"]

\* Largest number of requests handled at the same time.
MaxInFlight == 1
\* Largest number of clock steps.
MaxFsTicks == 3

FsIdle ==
    /\ fsNow = 0
    /\ fsTicks = 0
    /\ refreshToken = FALSE
    /\ upstream = [count |-> 0, foreign |-> {}, wrapped |-> FALSE]
    /\ tokenManager = NoToken
    /\ feedsCache = NoCache
    /\ calls = [c \in 1..MaxInFlight |-> NoCall]

\* The place of the next request: the first that holds no request in flight.
FreeSlots == {c \in DOMAIN calls : calls[c].pc \in {"idle", "done"}}
NextSlot == CHOOSE c \in FreeSlots : \A d \in FreeSlots : c <= d

\* The requests in flight: an answered request is kept for one step.
InFlight == [c \in DOMAIN calls |-> IF calls[c].pc = "done" THEN NoCall ELSE calls[c]]

\* handler (lines 157-209) up to its first await: the preflight answer,
\* the rejection of another method, or for a GET request the answer from the
\* cache, or fetchAllGbfsFeeds('gbfs') / getAccessToken up to the token
\* exchange, the first page request, or the missing credential.
\* req.query.data_type is never read.
Handle(method, dataType, force, limit) ==
    /\ FreeSlots # {}
    /\ LET c == [NewCall(force, limit, fsNow, tokenManager, feedsCache)
                    EXCEPT !.method = method, !.dataType = dataType]
       IN
       calls' = [InFlight EXCEPT ![NextSlot] =
         IF MethodAnswer(method, "GET") = 200 THEN [c EXCEPT !.response = Preflight200]
         ELSE IF MethodAnswer(method, "GET") = 405 THEN [c EXCEPT !.response = Error405]
         ELSE IF ~force /\ isCacheValid(feedsCache, fsNow)
         THEN [c EXCEPT !.response = Ok200(Limited(feedsCache.data, limit), TRUE)]
         ELSE IF isTokenExpired(tokenManager, fsNow)
         THEN IF ~refreshToken
              THEN [c EXCEPT !.response = Error500]
              ELSE [c EXCEPT !.pc = "token", !.exchanges = 1]
         ELSE [c EXCEPT !.pc = "page", !.accessToken = tokenManager.accessToken,
                        !.offsets = <<0>>, !.pageType = "gbfs"]]
    /\ UNCHANGED <<fsNow, fsTicks, refreshToken, upstream, tokenManager, feedsCache>>
    /\ UNCHANGED <<clVars, fmVars, ppVars, dfVars, nzVars, pxVars, cfVars, dbVars, ldVars>>

\* A GET request without data_type.
Call(force, limit) == Handle("GET", "gbfs", force, limit)

\* Mutant of refreshAccessToken: the expiry of a stored token is kept when
\* a new token is written.
refreshKeepsExpiry(tm, ok, expiresIn, t) ==
    IF ~ok THEN [threw |-> TRUE, tm |-> tm]
    ELSE [threw |-> FALSE,
          tm |-> [accessToken |-> t + 1,
                  tokenExpiresAt |->
                      IF tm.tokenExpiresAt >= 0 THEN tm.tokenExpiresAt
                      ELSE t + (IF expiresIn = 0 THEN DEFAULT_EXPIRES_IN
                                ELSE expiresIn) * 1000]]

\* Mutant of refreshAccessToken: a failed exchange forgets the stored token.
refreshForgetsOnFailure(tm, ok, expiresIn, t) ==
    IF ~ok THEN [threw |-> TRUE, tm |-> NoToken]
    ELSE [threw |-> FALSE,
          tm |-> [accessToken |-> t + 1,
                  tokenExpiresAt |-> t + (IF expiresIn = 0 THEN DEFAULT_EXPIRES_IN
                                          ELSE expiresIn) * 1000]]

\* refreshAccessToken (lines 32-41) from the response of the exchange on, at
\* time t: whether it throws, and tokenManager after it. expiresIn is
\* tokenData.expires_in in seconds, 0 when it is absent; the token granted
\* at time t is written t + 1.
refreshAccessToken(tm, ok, expiresIn, t) ==
    IF ~ok THEN [threw |-> TRUE, tm |-> tm]
    ELSE [threw |-> FALSE,
          tm |-> [accessToken |-> t + 1,
                  tokenExpiresAt |-> t + (IF expiresIn = 0 THEN DEFAULT_EXPIRES_IN
                                          ELSE expiresIn) * 1000]]

\* The token exchange of a request is answered; on success fetchAllGbfsFeeds
\* goes on to its first page request, on failure the handler answers 500.
TokenResponse(c, ok, expiresIn) ==
    /\ c \in DOMAIN calls
    /\ calls[c].pc = "token"
    /\ LET refreshed == refreshAccessToken(tokenManager, ok, expiresIn, fsNow) IN
       /\ tokenManager' = refreshed.tm
       /\ calls' = [InFlight EXCEPT ![c] =
              IF refreshed.threw
              THEN [@ EXCEPT !.pc = "done", !.response = Error500,
                             !.failedAt = "exchange"]
              ELSE [@ EXCEPT !.pc = "page",
                             !.accessToken = refreshed.tm.accessToken,
                             !.offsets = <<0>>, !.pageType = "gbfs"]]
    /\ UNCHANGED <<fsNow, fsTicks, refreshToken, upstream, feedsCache>>
    /\ UNCHANGED <<clVars, fmVars, ppVars, dfVars, nzVars, pxVars, cfVars, dbVars, ldVars>>

\* Mutant of LastPage: a full page ends the loop as well.
LastPageAtLimit(pageFeeds, limit) ==
    Len(pageFeeds) = 0 \/ Len(pageFeeds) <= limit

\* The loop of fetchAllGbfsFeeds ends with this page (lines 74-82).
LastPage(pageFeeds, limit) ==
    Len(pageFeeds) = 0 \/ Len(pageFeeds) < limit

\* Mutant of CacheAfterPage: the records fetched so far are stored when a
\* page fails.
CacheAfterPageEager(fc, ok, last, systems, t) ==
    IF ~ok \/ last THEN [present |-> TRUE, data |-> systems, timestamp |-> t]
    ELSE fc

\* feedsCache after the response of a page (line 190 is reached when the
\* loop has ended without an error).
CacheAfterPage(fc, ok, last, systems, t) ==
    IF ok /\ last THEN [present |-> TRUE, data |-> systems, timestamp |-> t]
    ELSE fc

\* The loop of fetchAllGbfsFeeds (lines 58-85) from the response of a page
\* on, up to the next page request; after the last page the handler
\* processes the records, stores them and answers (lines 188-202).
PageResponse(c, ok) ==
    /\ c \in DOMAIN calls
    /\ calls[c].pc = "page"
    /\ LET call == calls[c]
           pageFeeds == IF ok THEN PageFeeds(PageOf(upstream, PAGE_LIMIT, call.offset))
                        ELSE <<>>
           allFeeds == call.allFeeds \o pageFeeds
           last == LastPage(pageFeeds, PAGE_LIMIT)
           systems == processFeeds(allFeeds)
       IN /\ feedsCache' = CacheAfterPage(feedsCache, ok, last, systems, fsNow)
          /\ calls' = [InFlight EXCEPT ![c] =
                 IF ~ok
                 THEN [@ EXCEPT !.pc = "done", !.response = Error500,
                                !.failedAt = "page"]
                 ELSE IF last
                 THEN [@ EXCEPT !.pc = "done", !.allFeeds = allFeeds,
                                !.response = Ok200(Limited(systems, call.limit), FALSE)]
                 ELSE [@ EXCEPT !.allFeeds = allFeeds,
                                !.offset = call.offset + PAGE_LIMIT,
                                !.offsets = Append(call.offsets, call.offset + PAGE_LIMIT)]]
    /\ UNCHANGED <<fsNow, fsTicks, refreshToken, upstream, tokenManager>>
    /\ UNCHANGED <<clVars, fmVars, ppVars, dfVars, nzVars, pxVars, cfVars, dbVars, ldVars>>

\* Time passes between requests: a request is handled within a clock step.
\* The steps of the clock are those of the list, then a minute each.
FsTick(steps) ==
    /\ fsTicks < MaxFsTicks
    /\ FreeSlots = DOMAIN calls
    /\ fsTicks' = fsTicks + 1
    /\ fsNow' = fsNow + (IF fsTicks + 1 <= Len(steps) THEN steps[fsTicks + 1]
                         ELSE MINUTE)
    /\ calls' = [c \in DOMAIN calls |-> NoCall]
    /\ UNCHANGED <<refreshToken, upstream, tokenManager, feedsCache>>
    /\ UNCHANGED <<clVars, fmVars, ppVars, dfVars, nzVars, pxVars, cfVars, dbVars, ldVars>>

\* A minute passes while requests await their upstream.
FsWait ==
    /\ fsTicks < MaxFsTicks
    /\ FreeSlots # DOMAIN calls
    /\ fsTicks' = fsTicks + 1
    /\ fsNow' = fsNow + MINUTE
    /\ UNCHANGED <<refreshToken, upstream, tokenManager, feedsCache, calls>>
    /\ UNCHANGED <<clVars, fmVars, ppVars, dfVars, nzVars, pxVars, cfVars, dbVars, ldVars>>

(***************************************************************************)
(* discoverFeeds (src/src/app/analytics/index.ts)                          *)
(***************************************************************************)

\* A name or url value: undefined (field absent), a string (possibly
\* empty), or a number (a non-string).
DfUndefined == [t |-> "undefined", s |-> ""]
DfString(s) == [t |-> "string", s |-> s]
DfNumber == [t |-> "number", s |-> "7"]

\* JS truthiness of a name value.
DfTruthy(v) == \/ v.t = "number"
               \/ v.t = "string" /\ v.s # ""

\* An element of a feeds array: null, a string, or an object with name and
\* url.
FeedNull == [kind |-> "null", name |-> DfUndefined, url |-> DfUndefined]
FeedText == [kind |-> "string", name |-> DfUndefined, url |-> DfUndefined]
FeedEntry(name, url) == [kind |-> "object", name |-> name, url |-> url]

\* A feeds field: undefined (absent), a truthy non-array, or an array.
FeedsUndefined == [kind |-> "undefined", list |-> <<>>]
FeedsNonArray == [kind |-> "nonarray", list |-> <<>>]
FeedsArray(list) == [kind |-> "array", list |-> list]

\* The value under a key of the document: undefined (key absent), null, a
\* string, an array, or an object with (possibly absent) feeds and name.
LangUndefined == [kind |-> "undefined", feeds |-> FeedsUndefined, name |-> DfUndefined]
LangNull == [kind |-> "null", feeds |-> FeedsUndefined, name |-> DfUndefined]
LangText == [kind |-> "string", feeds |-> FeedsUndefined, name |-> DfUndefined]
LangList == [kind |-> "array", feeds |-> FeedsUndefined, name |-> DfUndefined]
LangObject(feeds, name) == [kind |-> "object", feeds |-> feeds, name |-> name]

\* The language keys of an object in Object.keys order, each with its value.
LangPair(key, value) == [key |-> key, value |-> value]

\* The value of a data field: null (or absent), or an object with language
\* keys, feeds and name.
NoContent == [kind |-> "null", langs |-> <<>>, feeds |-> FeedsUndefined, name |-> DfUndefined]
Content(langs, feeds, name) ==
    [kind |-> "object", langs |-> langs, feeds |-> feeds, name |-> name]

\* rawGbfsJson: null, or an object with data, language keys, feeds and name.
NullDocument ==
    [kind |-> "null", data |-> NoContent, langs |-> <<>>,
     feeds |-> FeedsUndefined, name |-> DfUndefined]
Document(data, content) ==
    [kind |-> "object", data |-> data, langs |-> content.langs,
     feeds |-> content.feeds, name |-> content.name]

\* The value of rawGbfsJson.data or of an object as the value under a key.
AsLang(content) ==
    IF content.kind = "object" THEN LangObject(content.feeds, content.name)
    ELSE LangNull

\* The feeds and name fields as values under their keys.
FeedsAsLang(feeds) == IF feeds.kind = "array" THEN LangList ELSE LangText
NameAsLang(name) == LangText

\* The keys of rawGbfsJson and their values: the language keys, then data,
\* feeds and name where present.
DocumentPairs(raw) ==
    raw.langs
    \o (IF raw.data.kind = "object" THEN <<LangPair("data", AsLang(raw.data))>> ELSE <<>>)
    \o (IF raw.feeds.kind # "undefined" THEN <<LangPair("feeds", FeedsAsLang(raw.feeds))>> ELSE <<>>)
    \o (IF raw.name.t # "undefined" THEN <<LangPair("name", NameAsLang(raw.name))>> ELSE <<>>)

\* The keys of rawGbfsJson.data and their values.
ContentPairs(content) ==
    content.langs
    \o (IF content.feeds.kind # "undefined" THEN <<LangPair("feeds", FeedsAsLang(content.feeds))>> ELSE <<>>)
    \o (IF content.name.t # "undefined" THEN <<LangPair("name", NameAsLang(content.name))>> ELSE <<>>)

\* gbfsContent (lines 71-74): its keys with their values, feeds and name.
GbfsContent(raw) ==
    IF raw.data.kind = "object" /\ raw.feeds.kind = "undefined"
    THEN [pairs |-> ContentPairs(raw.data), feeds |-> raw.data.feeds,
          name |-> raw.data.name]
    ELSE [pairs |-> DocumentPairs(raw), feeds |-> raw.feeds, name |-> raw.name]

\* Object.keys(gbfsContent)
ObjectKeys(pairs) == [i \in 1..Len(pairs) |-> pairs[i].key]

\* gbfsContent[lang]
Lookup(pairs, lang) ==
    IF \E i \in 1..Len(pairs) : pairs[i].key = lang
    THEN pairs[CHOOSE i \in 1..Len(pairs) : pairs[i].key = lang].value
    ELSE LangUndefined

langPriority == <<"en", "nb">>

\* [...new Set(keys)]: the first occurrence of each key, in order.
RECURSIVE Unique(_)
Unique(keys) ==
    IF keys = <<>> THEN <<>>
    ELSE LET front == Unique(SubSeq(keys, 1, Len(keys) - 1))
             last == keys[Len(keys)]
         IN IF last \in Range(front) THEN front ELSE Append(front, last)

\* allLangKeys (line 79)
AllLangKeys(pairs) == Unique(langPriority \o ObjectKeys(pairs))

\* Mutant of AcceptedFeed: a string name is enough.
AcceptedFeedByName(feed) ==
    feed.kind = "object" /\ feed.name.t = "string"

\* feed && typeof feed.name === 'string' && typeof feed.url === 'string'
AcceptedFeed(feed) ==
    feed.kind = "object" /\ feed.name.t = "string" /\ feed.url.t = "string"

\* feeds.forEach(...) of lines 84-88 and 100-104 on discoveredFeedUrls.
RECURSIVE AddFeeds(_, _)
AddFeeds(map, list) ==
    IF list = <<>> THEN map
    ELSE AddFeeds(IF AcceptedFeed(Head(list))
                  THEN Put(map, Head(list).name.s, Head(list).url.s)
                  ELSE map,
                  Tail(list))

\* langData && typeof langData === 'object' && langData.feeds &&
\* Array.isArray(langData.feeds)
HoldsFeeds(langData) ==
    langData.kind = "object" /\ langData.feeds.kind = "array"

\* a || b on name values
OrName(a, b) == IF DfTruthy(a) THEN a ELSE b

\* The loop of lines 81-94 over the keys: whether it returned, and
\* discoveredFeedUrls and nameFromGbfsJson after it.
RECURSIVE ScanLangs(_, _, _, _)
ScanLangs(pairs, keys, map, name) ==
    IF keys = <<>> THEN [returned |-> FALSE, map |-> map, name |-> name]
    ELSE LET langData == Lookup(pairs, Head(keys)) IN
         IF HoldsFeeds(langData)
         THEN LET added == AddFeeds(map, langData.feeds.list)
                  named == OrName(langData.name, name)
              IN IF Keys(added) # {}
                 THEN [returned |-> TRUE, map |-> added, name |-> named]
                 ELSE ScanLangs(pairs, Tail(keys), added, named)
         ELSE ScanLangs(pairs, Tail(keys), map, name)

\* What a call of discoverFeeds gives.
DfPending == [state |-> "pending", discoveredFeedUrls |-> <<>>, nameFromGbfsJson |-> DfUndefined]
DfSkipped == [state |-> "skipped", discoveredFeedUrls |-> <<>>, nameFromGbfsJson |-> DfUndefined]
DfThrew == [state |-> "threw", discoveredFeedUrls |-> <<>>, nameFromGbfsJson |-> DfUndefined]
DfReturned(map, name) ==
    [state |-> "returned", discoveredFeedUrls |-> map, nameFromGbfsJson |-> name]

\* discoverFeeds(rawGbfsJson, initialOperatorName) (lines 65-111); reading
\* a property of null throws a TypeError (line 72).
discoverFeeds(rawGbfsJson, initialOperatorName) ==
    IF rawGbfsJson.kind = "null" THEN DfThrew
    ELSE LET gbfsContent == GbfsContent(rawGbfsJson)
             scanned == ScanLangs(gbfsContent.pairs, AllLangKeys(gbfsContent.pairs),
                                  <<>>, initialOperatorName)
         IN IF scanned.returned THEN DfReturned(scanned.map, scanned.name)
            ELSE IF gbfsContent.feeds.kind = "array"
            THEN LET added == AddFeeds(scanned.map, gbfsContent.feeds.list) IN
                 DfReturned(added, OrName(gbfsContent.name, scanned.name))
            ELSE DfReturned(scanned.map, scanned.name)

\* operator.name of the caller.
FallbackName == DfString("operator")

DfIdle ==
    /\ dfDoc = NullDocument
    /\ dfResult = DfSkipped

\* The discovery result of an operator is processed (lines 397-405):
\* discoverFeeds is called when result.data is truthy.
Discover ==
    /\ dfResult = DfPending
    /\ dfResult' = IF dfDoc.kind = "null" THEN DfSkipped
                   ELSE discoverFeeds(dfDoc, FallbackName)
    /\ UNCHANGED dfDoc
    /\ UNCHANGED <<clVars, fmVars, ppVars, fsVars, nzVars, pxVars, cfVars, dbVars, ldVars>>

(***************************************************************************)
(* The config endpoint (src/api/config.js)                                 *)
(***************************************************************************)

CfNone == [method |-> "none", status |-> 0]

CfIdle == /\ mapboxToken = FALSE
          /\ cfReq = CfNone

\* handler (lines 1-23): the whole handler, which awaits nothing.
CfArrive(method) ==
    /\ cfReq' = [method |-> method,
                 status |-> IF MethodAnswer(method, "GET") # 0
                            THEN MethodAnswer(method, "GET")
                            ELSE IF ~mapboxToken THEN 500
                            ELSE 200]
    /\ UNCHANGED mapboxToken
    /\ UNCHANGED <<clVars, fmVars, ppVars, fsVars, dfVars, nzVars, pxVars, dbVars, ldVars>>

(***************************************************************************)
(* useDebouncedCallback (src/src/utils/useDebounce.ts)                     *)
(***************************************************************************)

\* The clock is observed at multiples of DbUnit; the delays of the hook are
\* none and two units.
DbUnit == 150
Delays == {0, 2 * DbUnit}

\* Number of clock steps and of calls of the debounced function.
MaxDbTicks == 4
MaxDbCalls == 3

DbArgs == {"a", "b"}

DbIdle == /\ dbNow = 0
          /\ dbDelay = 0
          /\ dbRef = 0
          /\ dbTimers = {}
          /\ dbCalls = <<>>
          /\ dbRuns = <<>>

\* The hook is mounted with some delay (lines 40-41).
DbInit == /\ dbNow = 0
          /\ dbDelay \in Delays
          /\ dbRef = 0
          /\ dbTimers = {}
          /\ dbCalls = <<>>
          /\ dbRuns = <<>>

\* Mutant of clearTimeout: the timer stays armed.
clearTimeoutNoOp(timers, id) == timers

\* clearTimeout(id): the timer id, if it is pending, is disarmed.
clearTimeout(timers, id) == {timer \in timers : timer.id # id}

\* debouncedFn(...args) (lines 58-65): the timer of timeoutRef is cleared
\* and a new one armed with the delay of the render the function is from.
\* The id of the timer of the n-th call is n. History: the call, with its
\* time and delay.
DbCall(args) ==
    /\ Len(dbCalls) < MaxDbCalls
    /\ LET id == Len(dbCalls) + 1
           cleared == IF dbRef # 0 THEN clearTimeout(dbTimers, dbRef) ELSE dbTimers
       IN /\ dbTimers' = cleared \cup {[id |-> id, due |-> dbNow + dbDelay, args |-> args]}
          /\ dbRef' = id
    /\ dbCalls' = Append(dbCalls, [t |-> dbNow, args |-> args, delay |-> dbDelay])
    /\ UNCHANGED <<dbNow, dbDelay, dbRuns>>
    /\ UNCHANGED <<clVars, fmVars, ppVars, fsVars, dfVars, nzVars, pxVars, cfVars, ldVars>>

\* A timer fires, at its due time or later: callbackRef.current(...args)
\* (lines 62-64). timeoutRef keeps the id. History: the invocation, with
\* its time and the number of calls made so far.
DbFire(timer) ==
    /\ timer \in dbTimers
    /\ dbNow >= timer.due
    /\ dbTimers' = dbTimers \ {timer}
    /\ dbRuns' = Append(dbRuns, [t |-> dbNow, args |-> timer.args, call |-> timer.id,
                                  calls |-> Len(dbCalls)])
    /\ UNCHANGED <<dbNow, dbDelay, dbRef, dbCalls>>
    /\ UNCHANGED <<clVars, fmVars, ppVars, fsVars, dfVars, nzVars, pxVars, cfVars, ldVars>>

\* The component renders with another delay: debouncedFn is re-created
\* (line 66), the refs are kept.
DbRender(delay) ==
    /\ delay # dbDelay
    /\ dbDelay' = delay
    /\ UNCHANGED <<dbNow, dbRef, dbTimers, dbCalls, dbRuns>>
    /\ UNCHANGED <<clVars, fmVars, ppVars, fsVars, dfVars, nzVars, pxVars, cfVars, ldVars>>

\* The component unmounts (lines 49-55); the function may still be called.
DbUnmount ==
    /\ dbRef # 0
    /\ dbTimers' = clearTimeout(dbTimers, dbRef)
    /\ dbTimers' # dbTimers
    /\ UNCHANGED <<dbNow, dbDelay, dbRef, dbCalls, dbRuns>>
    /\ UNCHANGED <<clVars, fmVars, ppVars, fsVars, dfVars, nzVars, pxVars, cfVars, ldVars>>

\* Time passes; a timer that is due may fire late.
DbTick ==
    /\ dbNow < MaxDbTicks * DbUnit
    /\ dbNow' = dbNow + DbUnit
    /\ UNCHANGED <<dbDelay, dbRef, dbTimers, dbCalls, dbRuns>>
    /\ UNCHANGED <<clVars, fmVars, ppVars, fsVars, dfVars, nzVars, pxVars, cfVars, ldVars>>

(***************************************************************************)
(* The client-side catalog loader (src/src/utils/countryUtils.ts)          *)
(***************************************************************************)

\* Most calls of fetchAndParseGBFSData in a behaviour.
MaxLdCalls == 3

\* data.systems of the catalog responses: none, one operator, two.
LdCatalogs == {<<>>, <<1>>, <<1, 2>>}

\* The module's variables at load (lines 37-40); no promise is promise 0.
LdIdle == /\ cachedSystems = <<>>
          /\ isFetching = FALSE
          /\ fetchPromise = 0
          /\ ldRequests = <<>>
          /\ ldCallers = <<>>

\* The promises whose catalog request is in flight.
LdInFlight == {p \in 1..Len(ldRequests) : ldRequests[p].state = "pending"}

\* clearSystemsCache() (lines 45-50)
clearSystemsCache ==
    /\ cachedSystems' = <<>>
    /\ isFetching' = FALSE
    /\ fetchPromise' = 0
    /\ UNCHANGED <<ldRequests, ldCallers>>
    /\ UNCHANGED <<clVars, fmVars, ppVars, fsVars, dfVars, nzVars, pxVars, cfVars, dbVars>>

\* fetchAndParseGBFSData() up to its return (lines 56-67, 115): the caller
\* is handed a copy of the cache, the stored promise, or the promise of a
\* request it starts. History: the requests in flight when it called.
fetchAndParseGBFSData ==
    /\ Len(ldCallers) < MaxLdCalls
    /\ LET caller(kind, promise, systems) ==
               [kind |-> kind, promise |-> promise, systems |-> systems,
                inFlight |-> LdInFlight]
       IN IF Len(cachedSystems) > 0
          THEN /\ ldCallers' = Append(ldCallers, caller("cache", 0, cachedSystems))
               /\ UNCHANGED <<cachedSystems, isFetching, fetchPromise, ldRequests>>
          ELSE IF isFetching /\ fetchPromise # 0
          THEN /\ ldCallers' = Append(ldCallers, caller("promise", fetchPromise, <<>>))
               /\ UNCHANGED <<cachedSystems, isFetching, fetchPromise, ldRequests>>
          ELSE /\ isFetching' = TRUE
               /\ ldRequests' = Append(ldRequests, [state |-> "pending", systems |-> <<>>])
               /\ fetchPromise' = Len(ldRequests) + 1
               /\ ldCallers' = Append(ldCallers,
                                      caller("promise", Len(ldRequests) + 1, <<>>))
               /\ UNCHANGED cachedSystems
    /\ UNCHANGED <<clVars, fmVars, ppVars, fsVars, dfVars, nzVars, pxVars, cfVars, dbVars>>

\* The request of promise p completes (lines 72-111): with a catalog, which
\* is stored and resolves the promise, or with an error, which rejects it;
\* the finally block resets the flag and the stored promise.
LdComplete(p, ok, systems) ==
    /\ p \in LdInFlight
    /\ IF ok
       THEN /\ cachedSystems' = systems
            /\ ldRequests' = [ldRequests EXCEPT ![p] =
                                 [state |-> "resolved", systems |-> systems]]
       ELSE /\ ldRequests' = [ldRequests EXCEPT ![p].state = "rejected"]
            /\ UNCHANGED cachedSystems
    /\ isFetching' = FALSE
    /\ fetchPromise' = 0
    /\ UNCHANGED ldCallers
    /\ UNCHANGED <<clVars, fmVars, ppVars, fsVars, dfVars, nzVars, pxVars, cfVars, dbVars>>

(***************************************************************************)
(* The operator cards of the active city (index.ts, lines 796-832)         *)
(***************************************************************************)

\* totalVehicleCount === null || totalVehicleCount === undefined
Nullish(count) == count.k \in {"null", "absent"}

\* Mutant of compareFleet: smallest fleet first.
compareFleetAscending(dataA, dataB) ==
    IF Nullish(dataA.totalVehicleCount)
    THEN IF Nullish(dataB.totalVehicleCount) THEN 0 ELSE 1
    ELSE IF Nullish(dataB.totalVehicleCount) THEN 0 - 1
    ELSE dataA.totalVehicleCount.v - dataB.totalVehicleCount.v

\* The comparator of the sort (lines 815-831).
compareFleet(dataA, dataB) ==
    IF Nullish(dataA.totalVehicleCount)
    THEN IF Nullish(dataB.totalVehicleCount) THEN 0 ELSE 1
    ELSE IF Nullish(dataB.totalVehicleCount) THEN 0 - 1
    ELSE dataB.totalVehicleCount.v - dataA.totalVehicleCount.v

\* Array.prototype.sort with the comparator, which is stable: an operator is
\* moved before the operators that compare greater than it, and before no
\* other.
RECURSIVE SortInsert(_, _, _)
SortInsert(sorted, systemId, display) ==
    IF sorted = <<>> THEN <<systemId>>
    ELSE LET last == sorted[Len(sorted)] IN
         IF compareFleet(display[last], display[systemId]) > 0
         THEN Append(SortInsert(SubSeq(sorted, 1, Len(sorted) - 1), systemId, display),
                     last)
         ELSE Append(sorted, systemId)

RECURSIVE SortByFleet(_, _)
SortByFleet(operators, display) ==
    IF operators = <<>> THEN <<>>
    ELSE SortInsert(SortByFleet(SubSeq(operators, 1, Len(operators) - 1), display),
                    operators[Len(operators)], display)

\* isAnyOperatorLoading (lines 797-801)
isAnyOperatorLoading ==
    \E i \in 1..Len(activeCityGroup.operators) :
        LET systemId == activeCityGroup.operators[i] IN
        /\ systemId \in DOMAIN operatorDisplayData
        /\ \/ operatorDisplayData[systemId].isLoadingDiscovery = "true"
           \/ operatorDisplayData[systemId].isLoadingSpecificFeed = "true"

\* The operator cards shown once no operator is loading (lines 811-832): the
\* operators with display data, sorted.
OperatorCards ==
    SortByFleet(SelectSeq(activeCityGroup.operators,
                          LAMBDA systemId : systemId \in DOMAIN operatorDisplayData),
                operatorDisplayData)

(***************************************************************************)
(* Specifications                                                          *)
(***************************************************************************)

InitClassify == ClInit /\ FmIdle /\ PpIdle /\ FsIdle /\ DfIdle /\ NzIdle /\ PxIdle /\ CfIdle /\ DbIdle /\ LdIdle

NextClassify == Classify

SpecClassify == InitClassify /\ [][NextClassify]_vars

\* Some item event of some request in flight; the upstreams answer with the
\* content types given.
ItemEvent(contentTypes) ==
    \E r \in 1..MaxReqs, i \in 1..MaxItems :
        \/ \E contentType \in contentTypes : HeadersOk(r, i, contentType)
        \/ HeadersNotOk(r, i)
        \/ FetchRejects(r, i)
        \/ TimerFires(r, i)
        \/ BodyOk(r, i)
        \/ BodyBad(r, i)

\* SpecFetch: one fetchMany batch of up to MaxItems items.
InitFetch == FmInit /\ ClIdle /\ PpIdle /\ FsIdle /\ DfIdle /\ NzIdle /\ PxIdle /\ CfIdle /\ DbIdle /\ LdIdle

NextFetch ==
    \/ \E body \in BatchBodies : reqs = <<>> /\ Arrive(body)
    \/ ItemEvent(ContentTypes)
    \/ Tick

SpecFetch == InitFetch /\ [][NextFetch]_vars

\* SpecCache: up to MaxReqs fetchMany requests, possibly overlapping, against
\* the shared TTL cache.
InitCache == FmInit /\ ClIdle /\ PpIdle /\ FsIdle /\ DfIdle /\ NzIdle /\ PxIdle /\ CfIdle /\ DbIdle /\ LdIdle

NextCache ==
    \/ \E feeds \in RequestFeeds : Arrive(BodyArray(feeds))
    \/ ItemEvent({"application/json"})
    \/ Tick

SpecCache == InitCache /\ [][NextCache]_vars

\* SpecPipe: one run of processOperatorsInBulk for city X, from the moment
\* the effect has started it.
InitPipe ==
    /\ ClIdle /\ FmIdle /\ FsIdle /\ DfIdle /\ NzIdle /\ PxIdle /\ CfIdle /\ DbIdle /\ LdIdle
    /\ world \in PipeWorlds
    /\ activeCityGroup = CityX
    /\ operatorDisplayData =
           LoadingState([systemId \in Range(CityX.operators) |-> InitialData(systemId)],
                        CityX.operators)
    /\ effectPending = FALSE
    /\ runs = <<NewRun(CityX.operators)>>

NextPipe ==
    \/ DiscoveryDone(1)
    \/ OptionalDone(1)
    \/ StatusDone(1)

SpecPipe == InitPipe /\ [][NextPipe]_vars

\* SpecCity: city selections interleaved with the runs they start.
ThreeWorlds(systemId) ==
    {OperatorWorld(OutErr, FirstVt, FirstSs, FirstVs),
     OperatorWorld(OutDoc(FeedsOf(systemId, StationPair, {})), FirstVt,
                   OutDoc(StatusDoc(Arr(<<Station("s1", 2, 1, 3)>>), ArrAbsent, ArrAbsent)),
                   FirstVs),
     OperatorWorld(OutDoc(FeedsOf(systemId, {"vehicle_status", "vehicle_types"}, {})),
                   OutDoc(VtArray(<<VtEntry(FFString("scooter"))>>)), FirstSs,
                   OutDoc(StatusDoc(ArrAbsent, Arr(<<Vehicle("false", "false")>>),
                                    ArrAbsent)))}

CityWorlds ==
    {[s \in {SysA, SysAB, SysC} |->
         IF s = SysA THEN a ELSE IF s = SysAB THEN ab ELSE c] :
        a \in ThreeWorlds(SysA), ab \in ThreeWorlds(SysAB), c \in ThreeWorlds(SysC)}

InitCity ==
    /\ ClIdle /\ FmIdle /\ FsIdle /\ DfIdle /\ NzIdle /\ PxIdle /\ CfIdle /\ DbIdle /\ LdIdle
    /\ world \in CityWorlds
    /\ activeCityGroup = NoCity
    /\ operatorDisplayData = <<>>
    /\ effectPending = FALSE
    /\ runs = <<>>

NextCity ==
    \/ \E group \in Cities : SelectCity(group)
    \/ ClearCity
    \/ StartRun
    \/ \E r \in 1..MaxRuns : \/ DiscoveryDone(r)
                             \/ OptionalDone(r)
                             \/ StatusDone(r)

SpecCity == InitCity /\ [][NextCity]_vars

\* The catalogs the upstream serves: count records, those in foreign with
\* another data_type, as an array or wrapped in an object.
Upstream(count, foreign, wrapped) ==
    [count |-> count, foreign |-> foreign, wrapped |-> wrapped]

FsInit(credentials, upstreams) ==
    /\ ClIdle /\ FmIdle /\ PpIdle /\ DfIdle /\ NzIdle /\ PxIdle /\ CfIdle /\ DbIdle /\ LdIdle
    /\ fsNow = 0
    /\ fsTicks = 0
    /\ refreshToken \in credentials
    /\ upstream \in upstreams
    /\ tokenManager = NoToken
    /\ feedsCache = NoCache
    /\ calls = [c \in 1..MaxInFlight |-> NoCall]

FsNext(steps, lifetimes) ==
    \/ \E force \in BOOLEAN : Call(force, 0)
    \/ \E c \in 1..MaxInFlight, ok \in BOOLEAN, expiresIn \in lifetimes :
          TokenResponse(c, ok, expiresIn)
    \/ \E c \in 1..MaxInFlight, ok \in BOOLEAN : PageResponse(c, ok)
    \/ FsTick(steps)

\* Largest number of language keys of a discovery document, and the longest
\* feeds array of the documents that vary the entries.
MaxLangs == 2
MaxFeeds == 2

LangKeys == {"en", "nb", "fr"}

\* An accepted feed whose url tells the feed list it stands in.
FeedAt(place) == FeedEntry(DfString("system_information"), DfString(place))

\* The feeds fields and names of the documents that vary the structure.
PlaceFeeds(place) ==
    {FeedsUndefined, FeedsArray(<<>>), FeedsArray(<<FeedNull>>),
     FeedsArray(<<FeedAt(place)>>)}
PlaceNames(place) == {DfUndefined, DfString(place)}

LangValues(key) ==
    {LangNull} \cup {LangObject(f, n) : f \in PlaceFeeds(key), n \in PlaceNames(key)}
LangPairs == UNION {{LangPair(key, v) : v \in LangValues(key)} : key \in LangKeys}

\* The language keys of a document are distinct.
DistinctKeys(p) == \A i, j \in 1..Len(p) : p[i].key = p[j].key => i = j

Bare == {Content(<<>>, f, n) : f \in PlaceFeeds("root"), n \in PlaceNames("root")}
Inner == {Content(<<>>, f, n) : f \in PlaceFeeds("data"), n \in PlaceNames("data")}

\* Documents that vary the structure: no envelope, an envelope, and a data
\* field beside feeds, name or nothing.
StructureDocument(doc) ==
    \/ \E k \in 0..MaxLangs : \E langs \in [1..k -> LangPairs] :
          /\ DistinctKeys(langs)
          /\ \E f \in PlaceFeeds("root"), n \in PlaceNames("root"), wrapped \in BOOLEAN :
                doc = IF wrapped
                      THEN Document(Content(langs, f, n),
                                    Content(<<>>, FeedsUndefined, DfUndefined))
                      ELSE Document(NoContent, Content(langs, f, n))
    \/ \E d \in Inner, c \in Bare : doc = Document(d, c)

\* Documents that vary the entries of one feed list, under en or at root.
FeedEntries ==
    {FeedNull, FeedText}
    \cup {FeedEntry(n, u) :
            n \in {DfUndefined, DfNumber, DfString("system_information"),
                   DfString("station_status")},
            u \in {DfUndefined, DfNumber, DfString("u1"), DfString("")}}
EntryDocument(doc) ==
    \E k \in 0..MaxFeeds : \E l \in [1..k -> FeedEntries], root \in BOOLEAN :
        doc = IF root
              THEN Document(NoContent, Content(<<>>, FeedsArray(l), DfUndefined))
              ELSE Document(NoContent,
                            Content(<<LangPair("en", LangObject(FeedsArray(l), DfUndefined))>>,
                                    FeedsUndefined, DfUndefined))

\* Longest stations array, and longest vehicles array, of the documents.
MaxStations == 2
MaxVehicles == 3

\* The two stations of the example: {num_bikes_available: 3,
\* num_docks_available: 5} and {num_bikes_available: 2, num_bikes_disabled: 1,
\* num_docks_available: 4}, with the station_id id.
ExampleStation1(id) ==
    StationOf(id, ArrAbsent, Num(3), NotNum, NotNum, NotNum, NotNum, Num(5))
ExampleStation2(id) ==
    StationOf(id, ArrAbsent, Num(2), NotNum, NotNum, Num(1), NotNum, Num(4))

\* The stations of the documents of several stations.
FewStations ==
    {StationNull,
     ExampleStation1(StationIdAbsent), ExampleStation2(StationIdAbsent),
     ExampleStation1("s1"), ExampleStation2("s2"), ExampleStation2("s1"),
     StationOf("s2", Arr(<<Vta(1), Vta(2)>>), Num(7), NotNum, Num(1), NotNum, Num(1), NotNum)}

\* The station status documents: no stations array, one station of any
\* fields, or up to MaxStations of the few.
StationDocument(doc) ==
    \/ \E stations \in {ArrAbsent, ArrNonArray} :
          doc = StatusDoc(stations, ArrAbsent, ArrAbsent)
    \/ \E station \in [isNull : {FALSE}, station_id : {StationIdAbsent, "s1"},
                        vehicle_types_available :
                            {ArrAbsent, ArrNonArray, Arr(<<>>), Arr(<<Vta(0), Vta(2)>>),
                             Arr(<<VtaNull>>)},
                        num_bikes_available : {NotNum, Num(3)},
                        num_vehicles_available : {NotNum, Num(2)},
                        num_ebikes_available : {NotNum, Num(1)},
                        num_bikes_disabled : {NotNum, Num(1)},
                        num_vehicles_disabled : {NotNum, Num(1)},
                        num_docks_available : {NotNum, Num(5)}] :
          doc = StatusDoc(Arr(<<station>>), ArrAbsent, ArrAbsent)
    \/ \E k \in 0..MaxStations : \E list \in [1..k -> FewStations] :
          doc = StatusDoc(Arr(list), ArrAbsent, ArrAbsent)

\* The elements of vehicles and bikes.
Flags == {"true", "false", "absent"}
AnyVehicles ==
    {VehicleNull, Vehicle("other", "false"), Vehicle("false", "other")}
    \cup {Vehicle(d, r) : d \in Flags, r \in Flags}

\* The free-floating status documents: vehicles of up to MaxVehicles
\* elements, absent or no array, beside a bikes field.
VehicleDocument(doc) ==
    \E bikes \in {ArrAbsent, ArrNonArray, Arr(<<>>),
                  Arr(<<Vehicle("false", "false"), Vehicle("true", "false")>>)} :
        \/ \E vehicles \in {ArrAbsent, ArrNonArray} :
              doc = StatusDoc(ArrAbsent, vehicles, bikes)
        \/ \E k \in 0..MaxVehicles : \E list \in [1..k -> AnyVehicles] :
              doc = StatusDoc(ArrAbsent, Arr(list), bikes)

\* SpecNormalize: one status result, of any document, for one operator.
InitNormalize ==
    /\ ClIdle /\ FmIdle /\ PpIdle /\ FsIdle /\ DfIdle /\ PxIdle /\ CfIdle /\ DbIdle /\ LdIdle
    /\ \/ nzFeed = "station_status" /\ StationDocument(nzDoc)
       \/ nzFeed \in {"vehicle_status", "free_bike_status"} /\ VehicleDocument(nzDoc)
    /\ nzResult = NzPending
NextNormalize == Normalize
SpecNormalize == InitNormalize /\ [][NextNormalize]_vars

\* SpecDiscover: discoverFeeds as a pure function of the document.
InitDiscover ==
    /\ ClIdle /\ FmIdle /\ PpIdle /\ FsIdle /\ NzIdle /\ PxIdle /\ CfIdle /\ DbIdle /\ LdIdle
    /\ \/ dfDoc = NullDocument
       \/ StructureDocument(dfDoc)
       \/ EntryDocument(dfDoc)
    /\ dfResult = DfPending
NextDiscover == Discover
SpecDiscover == InitDiscover /\ [][NextDiscover]_vars

\* SpecToken: requests to the catalog endpoint on the time scale of the
\* token: the exchange grants ten minutes, or names no lifetime.
InitToken == FsInit(BOOLEAN, {Upstream(3, {2}, TRUE)})
NextToken == FsNext(<<4 * MINUTE, MINUTE, MINUTE, 55 * MINUTE>>, {0, 600})
SpecToken == InitToken /\ [][NextToken]_vars

\* SpecCatalog: requests to the catalog endpoint on the time scale of the
\* cache, over catalogs of no, one, two (the second empty) and three pages;
\* the exchange grants a day.
InitCatalog ==
    FsInit({TRUE}, {Upstream(0, {}, FALSE), Upstream(400, {2}, TRUE),
                    Upstream(PAGE_LIMIT, {}, FALSE),
                    Upstream(2 * PAGE_LIMIT + 400, {2}, FALSE)})
NextCatalog == FsNext(<<359 * MINUTE, MINUTE>>, {24 * 60 * 60})
SpecCatalog == InitCatalog /\ [][NextCatalog]_vars

\* SpecList: requests to the catalog endpoint of every method, data_type and
\* limit, one after the other, against a catalog of one page with a record
\* of another data type.
Limits == {0, 1, 5}
DataTypes == {"gbfs", "gtfs"}

InitList == FsInit({TRUE}, {Upstream(3, {2}, TRUE), Upstream(4, {1}, FALSE)})

NextList ==
    \/ \E method \in Methods, dataType \in DataTypes, force \in BOOLEAN,
          limit \in Limits : Handle(method, dataType, force, limit)
    \/ \E c \in 1..MaxInFlight, ok \in BOOLEAN : TokenResponse(c, ok, 24 * 60 * 60)
    \/ \E c \in 1..MaxInFlight, ok \in BOOLEAN : PageResponse(c, ok)
    \/ FsTick(<<MINUTE>>)

SpecList == InitList /\ [][NextList]_vars

\* SpecRefresh: up to MaxCallers requests to the catalog endpoint handled at
\* the same time, time passing while they await the token exchange.
MaxCallers == 2

InitRefresh ==
    /\ ClIdle /\ FmIdle /\ PpIdle /\ DfIdle /\ NzIdle /\ PxIdle /\ CfIdle /\ DbIdle /\ LdIdle
    /\ fsNow = 0
    /\ fsTicks = 0
    /\ refreshToken = TRUE
    /\ upstream = Upstream(3, {2}, TRUE)
    /\ tokenManager = NoToken
    /\ feedsCache = NoCache
    /\ calls = [c \in 1..MaxCallers |-> NoCall]

NextRefresh ==
    \/ Call(FALSE, 0)
    \/ \E c \in 1..MaxCallers, ok \in BOOLEAN, expiresIn \in {0, 600} :
          TokenResponse(c, ok, expiresIn)
    \/ \E c \in 1..MaxCallers : PageResponse(c, TRUE)
    \/ FsWait

SpecRefresh == InitRefresh /\ [][NextRefresh]_vars

\* SpecMethods: requests of every method to the four endpoints, the
\* upstreams answering every request with success.
InitMethods ==
    /\ ClIdle /\ PpIdle /\ DfIdle /\ NzIdle /\ DbIdle /\ LdIdle
    /\ FmInit
    /\ PxInit
    /\ fsNow = 0
    /\ fsTicks = 0
    /\ refreshToken = TRUE
    /\ upstream = Upstream(3, {2}, TRUE)
    /\ tokenManager = NoToken
    /\ feedsCache = NoCache
    /\ calls = [c \in 1..MaxInFlight |-> NoCall]
    /\ mapboxToken \in BOOLEAN
    /\ cfReq = CfNone

NextMethods ==
    \/ \E method \in Methods : Handle(method, "gbfs", FALSE, 0)
    \/ \E c \in 1..MaxInFlight : TokenResponse(c, TRUE, 24 * 60 * 60)
    \/ \E c \in 1..MaxInFlight : PageResponse(c, TRUE)
    \/ \E method \in Methods : Receive(method, BodyArray(<<Feed("x", "u1")>>))
    \/ \E r \in 1..MaxReqs : HeadersOk(r, 1, "application/json")
    \/ \E r \in 1..MaxReqs : BodyOk(r, 1)
    \/ \E method \in Methods : PxArrive(method, TRUE)
    \/ PxHeaders(200, "application/geo+json")
    \/ PxBodyResolves
    \/ \E method \in Methods : CfArrive(method)

SpecMethods == InitMethods /\ [][NextMethods]_vars

\* SpecDebounce: calls of the debounced function, renders with another
\* delay and the unmount, interleaved with the timers.
InitDebounce ==
    /\ DbInit
    /\ ClIdle /\ FmIdle /\ PpIdle /\ FsIdle /\ DfIdle /\ NzIdle /\ PxIdle /\ CfIdle /\ LdIdle

NextDebounce ==
    \/ \E args \in DbArgs : DbCall(args)
    \/ \E timer \in dbTimers : DbFire(timer)
    \/ \E delay \in Delays : DbRender(delay)
    \/ DbUnmount
    \/ DbTick

SpecDebounce == InitDebounce /\ [][NextDebounce]_vars

\* SpecLoader: calls of fetchAndParseGBFSData and clearSystemsCache
\* interleaved with the completions of the catalog requests.
InitLoader ==
    /\ LdIdle
    /\ ClIdle /\ FmIdle /\ PpIdle /\ FsIdle /\ DfIdle /\ NzIdle /\ PxIdle /\ CfIdle /\ DbIdle

NextLoader ==
    \/ fetchAndParseGBFSData
    \/ clearSystemsCache
    \/ \E p \in LdInFlight, systems \in LdCatalogs : LdComplete(p, TRUE, systems)
    \/ \E p \in LdInFlight : LdComplete(p, FALSE, <<>>)

SpecLoader == InitLoader /\ [][NextLoader]_vars

\* SpecProxy: fetchSingle requests, one after the other, against upstreams
\* of every status and content type.
InitProxy ==
    /\ PxInit /\ ClIdle /\ FmIdle /\ PpIdle /\ FsIdle /\ DfIdle /\ NzIdle
    /\ CfIdle /\ DbIdle /\ LdIdle

NextProxy ==
    \/ \E method \in Methods, hasTarget \in BOOLEAN : PxArrive(method, hasTarget)
    \/ \E status \in UpstreamStatuses, contentType \in UpstreamTypes :
          PxHeaders(status, contentType)
    \/ PxFetchRejects
    \/ PxTimerFires
    \/ PxBodyResolves
    \/ PxBodyRejects
    \/ PxTick

SpecProxy == InitProxy /\ [][NextProxy]_vars

(***************************************************************************)
(* Claims                                                                  *)
(***************************************************************************)

\* The claim's precondition "the vehicle_types list contains at least one
\* type with a form factor matching scooter".
HasScooterType(vt) ==
    /\ vt.kind = "array"
    /\ \E i \in 1..Len(vt.vehicle_types) :
          /\ ~vt.vehicle_types[i].isNull
          /\ vt.vehicle_types[i].form_factor.t = "string"
          /\ Includes(vt.vehicle_types[i].form_factor.s, "scooter")

\* C3: whenever the vehicle-type payload holds a scooter form factor, the
\* call returns free_floating, for every feed map.
C3_ScooterWinsUnconditionally ==
    (clResult \notin {"pending", "idle"} /\ HasScooterType(clVt))
        => clResult = "free_floating"

\* C4: a feed map with both station_information and station_status and no
\* scooter evidence is classified station_based, whatever vehicle feeds
\* the map also holds.
C4_StationPairIsStationBased ==
    (/\ clResult \notin {"pending", "idle"}
     /\ {"station_information", "station_status"} \subseteq Keys(clFeeds)
     /\ ~HasScooterType(clVt))
        => clResult = "station_based"

\* Every abort timer that is due has fired.
NoTimerDue == ~TimerDue

\* C5: a hanging upstream never blocks the batch: once the per-item timeout
\* has passed since a batch of well-formed items started (and the due timers
\* have fired), the batch has returned one result per item.
C5_HangNeverBlocksBatch ==
    \A r \in 1..Len(reqs) :
        (/\ reqs[r].body = "array" /\ NullFeed \notin Range(reqs[r].feeds)
         /\ now - reqs[r].t0 >= FETCH_TIMEOUT_MS /\ NoTimerDue)
            => /\ reqs[r].pc = "responded"
               /\ Len(reqs[r].response) = Len(reqs[r].feeds)

\* C6: every 200 response holds one result per input item, the i-th result
\* named as the i-th input item, whether fetched or served from the cache.
C6_ResultsMatchInputNames ==
    \A r \in 1..Len(reqs) :
        (reqs[r].pc = "responded" /\ reqs[r].status = 200)
            => /\ Len(reqs[r].response) = Len(reqs[r].feeds)
               /\ \A i \in 1..Len(reqs[r].feeds) :
                     reqs[r].response[i].feed_name = reqs[r].feeds[i].name

\* The stores of request r's cache key that had happened when r arrived.
PriorStores(r) ==
    {j \in 1..reqs[r].seen : stored[j].key = CacheKey(reqs[r].feeds)}

SetMax(S) == CHOOSE m \in S : \A x \in S : x <= m

\* C9: a request is answered from the cache, without any upstream request
\* and with exactly the results the latest earlier request of the same
\* sorted URL list stored, if that request completed less than CACHE_TTL
\* before; otherwise (no such request, or 60 s or more ago) it is not served
\* from the cache and every item is fetched again.
C9_CacheServesWithinTtl ==
    \A r \in 1..Len(reqs) :
        IF \E j \in PriorStores(r) : reqs[r].t0 - stored[j].timestamp < CACHE_TTL
        THEN /\ reqs[r].hit
             /\ reqs[r].issued = 0
             /\ reqs[r].pc = "responded"
             /\ reqs[r].response = stored[SetMax(PriorStores(r))].data
        ELSE /\ ~reqs[r].hit
             /\ reqs[r].issued = Len(reqs[r].feeds)

\* C9 witness: a request was served from the cache and the results it got
\* carry a per-item error of the earlier request.
C9_Witness ==
    \E r \in 1..Len(reqs) :
        /\ reqs[r].hit
        /\ \E i \in 1..Len(reqs[r].response) : reqs[r].response[i].error # "null"

\* An operator's entry carries non-null vehicle counts.
CountsNonNull(d) == d.totalVehicleCount.k = "num" \/ d.vehicleCount.k = "num"

\* C1: at the end of a run of processOperatorsInBulk, every operator whose
\* result carries non-null vehicle counts had them computed from the status
\* feed family of its final verdict: from station_status if and only if the
\* verdict is station_based, from vehicle_status / free_bike_status if and
\* only if it is free_floating.
C1_CountsMatchFinalVerdict ==
    \A r \in 1..Len(runs) :
        runs[r].pc = "done" =>
            \A systemId \in DOMAIN runs[r].local.map :
                LET d == runs[r].local.map[systemId] IN
                CountsNonNull(d) =>
                    /\ d.countsFrom = "station_status" <=> d.operatorType = "station_based"
                    /\ d.countsFrom \in {"vehicle_status", "free_bike_status"}
                           <=> d.operatorType = "free_floating"

\* A run has ended with an operator that was reclassified from station_based
\* to free_floating and carries counts from a vehicle feed.
C1_Witness ==
    \E r \in 1..Len(runs) :
        /\ runs[r].pc = "done"
        /\ \E systemId \in DOMAIN runs[r].local.map :
              LET d == runs[r].local.map[systemId] IN
              /\ d.provisionalType = "station_based"
              /\ d.operatorType = "free_floating"
              /\ d.countsFrom \in {"vehicle_status", "free_bike_status"}
              /\ CountsNonNull(d)

\* C2: in a run, an operator's verdict is its provisional verdict or
\* free_floating: the second pass never changes a verdict to station_based
\* or unknown and never changes a provisional free_floating.
C2_VerdictOnlyMovesToFreeFloating ==
    \A r \in 1..Len(runs) :
        \A systemId \in DOMAIN runs[r].local.map :
            LET d == runs[r].local.map[systemId] IN
            d.operatorType # "absent" =>
                \/ d.operatorType = d.provisionalType
                \/ d.operatorType = "free_floating"

\* The second pass has run on an operator with a vehicle_types list and kept
\* its provisional free_floating, and changed another's verdict.
C2_Witness ==
    \E r \in 1..Len(runs) :
        /\ runs[r].pc \in {"status", "done"}
        /\ \E s1, s2 \in DOMAIN runs[r].local.map :
              LET d1 == runs[r].local.map[s1]
                  d2 == runs[r].local.map[s2]
              IN /\ d1.provisionalType = "free_floating"
                 /\ d1.vehicleTypesRaw.kind = "array"
                 /\ d1.operatorType = "free_floating"
                 /\ d2.provisionalType = "station_based"
                 /\ d2.operatorType = "free_floating"

\* The fields of an entry that make the operator's terminal result.
Terminal(d) ==
    [isLoadingDiscovery |-> d.isLoadingDiscovery,
     discoveryError |-> d.discoveryError,
     operatorType |-> d.operatorType,
     totalVehicleCount |-> d.totalVehicleCount,
     vehicleCount |-> d.vehicleCount,
     stationCount |-> d.stationCount,
     docksAvailableAtStations |-> d.docksAvailableAtStations,
     feedError |-> d.feedError]

\* C7: when a run has ended, by returning or by raising, every operator whose
\* own feeds raise nothing has in the state the terminal result it has when
\* it is run alone, whatever the feeds of the other operators answer.
C7_ErrorsAreIsolated ==
    \A r \in 1..Len(runs) :
        runs[r].pc \in {"done", "rejected"} /\ ~runs[r].failed =>
            \A systemId \in Range(runs[r].operators) :
                ~RunPhases(<<systemId>>, world).thrown =>
                    /\ systemId \in DOMAIN operatorDisplayData
                    /\ Terminal(operatorDisplayData[systemId])
                           = Terminal(AloneEntry(systemId, world))

\* C8: the state holds entries only for the operators of the active city,
\* each written by the selection or by the run started for it.
C8_StaleResultsDiscarded ==
    \A systemId \in DOMAIN operatorDisplayData :
        /\ systemId \in Range(activeCityGroup.operators)
        /\ \/ operatorDisplayData[systemId].run = 0
           \/ ~effectPending /\ operatorDisplayData[systemId].run = Len(runs)

\* The discovery result of a run for an operator is an error, has no data,
\* or yields an empty feed map.
DiscoveryFailed(result) == result.kind # "doc" \/ Keys(result.doc) = {}

\* C10: an operator whose discovery result is an error, has no data or
\* yields an empty feed map carries a discoveryError, no request of a later
\* batch is for it, its verdict is not changed, and it carries no counts.
C10_DiscoveryFailureIsTerminal ==
    \A r \in 1..Len(runs) :
        \A i \in 1..Len(runs[r].discovery) :
            LET result == runs[r].discovery[i]
                systemId == result.feed_name
                local == runs[r].local
                d == local.map[systemId]
                mine(queue) == {j \in 1..Len(queue) :
                                   StartsWith(queue[j].name, systemId \o <<Sep>>)}
            IN DiscoveryFailed(result) =>
                  /\ d.discoveryError \notin {"absent", "null"}
                  /\ mine(runs[r].asked) = {}
                  /\ mine(local.optQ) = {}
                  /\ mine(local.statusQ) = {}
                  /\ d.operatorType = d.provisionalType
                  /\ d.vehicleTypesRaw = VtUndefined
                  /\ ~CountsNonNull(d)
                  /\ d.stationCount.k # "num"
                  /\ d.docksAvailableAtStations.k # "num"

\* A run has ended in which the first operator's document yields an empty
\* feed map and the second operator carries counts.
C10_Witness ==
    \E r \in 1..Len(runs) :
        /\ runs[r].pc = "done"
        /\ Len(runs[r].discovery) = 2
        /\ runs[r].discovery[1].kind = "doc"
        /\ DiscoveryFailed(runs[r].discovery[1])
        /\ CountsNonNull(runs[r].local.map[runs[r].discovery[2].feed_name])

\* The phase a request belongs to: 1 discovery, 2 optional feeds, 3 status.
PhaseOf(feed) ==
    IF Len(Split(feed.name)) < 2 THEN 1
    ELSE IF FeedTypeOf(feed.name) \in {"system_information", "vehicle_types"} THEN 2
    ELSE 3

\* The second pass has nothing left to do for the entry.
Reclassified(d) ==
    d.operatorType # "absent" /\ d.feedsSet /\ d.vehicleTypesRaw.kind # "undefined"
        => classifyOperatorType(d.feedsFromDiscovery, d.vehicleTypesRaw) = d.operatorType

\* C11: in a run the requests are issued phase by phase; when the optional
\* batch has been issued the discovery result of every operator has been
\* processed, and when the status batch has been issued every optional
\* result has been processed and every operator has been reclassified.
C11_PhasesAreBarriers ==
    \A r \in 1..Len(runs) :
        LET run == runs[r]
            issued(phase) == run.pc \in
                (IF phase = 2 THEN {"optional", "status", "done", "rejected"}
                 ELSE {"status", "done"})
                \/ \E j \in 1..Len(run.asked) : PhaseOf(run.asked[j]) = phase
        IN /\ \A i, j \in 1..Len(run.asked) :
                 i < j => PhaseOf(run.asked[i]) <= PhaseOf(run.asked[j])
           /\ issued(2) =>
                 /\ Len(run.discovery) = Len(run.operators)
                 /\ \A systemId \in Range(run.operators) :
                       /\ systemId \in DOMAIN run.local.map
                       /\ run.local.map[systemId].isLoadingDiscovery = "false"
           /\ issued(3) =>
                 /\ \A i \in 1..Len(run.optional) :
                       LET result == run.optional[i] IN
                       result.kind = "doc" /\ FeedTypeOf(result.feed_name) = "vehicle_types"
                           => run.local.map[SystemIdOf(result.feed_name)].vehicleTypesRaw
                                  = result.doc
                 /\ \A systemId \in DOMAIN run.local.map :
                       Reclassified(run.local.map[systemId])

\* The status batch of a run has been issued with a request for each of two
\* operators, the second of them reclassified by the second pass.
C11_Witness ==
    \E r \in 1..Len(runs) :
        /\ runs[r].pc = "status"
        /\ Len(runs[r].local.statusQ) = 2
        /\ \E systemId \in DOMAIN runs[r].local.map :
              LET d == runs[r].local.map[systemId] IN
              /\ systemId = runs[r].local.order[2]
              /\ d.provisionalType = "station_based"
              /\ d.operatorType = "free_floating"

\* An entry of the state is terminal: not loading, with counts or an error.
IsTerminal(d) ==
    /\ d.isLoadingDiscovery = "false"
    /\ d.isLoadingSpecificFeed = "false"
    /\ \/ CountsNonNull(d)
       \/ d.discoveryError \notin {"absent", "null"}
       \/ d.feedError \notin {"absent", "null"}

\* C12: once a run has finished, by returning or by raising, every operator
\* of the selected city is terminal: neither loading flag set, and counts or
\* an error.
C12_FinishedRunLeavesAllTerminal ==
    \A r \in 1..Len(runs) :
        runs[r].pc \in {"done", "rejected"} =>
            \A systemId \in Range(runs[r].operators) :
                /\ systemId \in DOMAIN operatorDisplayData
                /\ IsTerminal(operatorDisplayData[systemId])


\* The token stored when the request arrived was missing or within five
\* minutes of its expiry.
ExpiredAtStart(call) ==
    \/ call.tokenAtStart.accessToken = 0
    \/ call.t0 >= call.tokenAtStart.tokenExpiresAt - 5 * MINUTE

\* The request was not answered from the cache: getAccessToken was called.
AskedForToken(call) == call.pc # "idle" /\ ~call.response.cache_hit

\* C13: getAccessToken performs a token exchange exactly when no token is
\* stored or the time is at or past the stored expiry minus five minutes;
\* otherwise it returns the stored token with no exchange.
C13_RefreshIffExpired ==
    \A c \in 1..MaxInFlight :
        LET call == calls[c] IN
        AskedForToken(call) =>
            /\ call.exchanges = 1 <=> ExpiredAtStart(call) /\ refreshToken
            /\ call.exchanges \in {0, 1}
            /\ ~ExpiredAtStart(call) =>
                  /\ call.offsets # <<>>
                  /\ call.accessToken = call.tokenAtStart.accessToken

\* A request arrived when the stored token had four minutes left and made a
\* token exchange.
C13_Witness ==
    \E c \in 1..MaxInFlight :
        /\ AskedForToken(calls[c])
        /\ calls[c].tokenAtStart.accessToken # 0
        /\ calls[c].tokenAtStart.tokenExpiresAt - calls[c].t0 = 4 * MINUTE
        /\ calls[c].exchanges = 1

\* The token refresh of the request failed: no credential, or the exchange
\* was answered with a non-success status.
RefreshFailed(call) ==
    \/ call.failedAt = "exchange"
    \/ AskedForToken(call) /\ ExpiredAtStart(call) /\ ~refreshToken

\* C14: a step in which the token refresh of a request fails leaves the
\* stored token and expiry unchanged and answers 500; the request has made
\* at most one exchange and no page request.
C14_RefreshFailureIsFatal ==
    [][\A c \in 1..MaxInFlight :
          calls'[c] # calls[c] /\ calls'[c].pc = "done" /\ RefreshFailed(calls'[c])
             => /\ tokenManager' = tokenManager
                /\ calls'[c].response.status = 500
                /\ calls'[c].exchanges <= 1
                /\ calls'[c].offsets = <<>>]_vars

\* The exchange of a request failed while a token was stored, and the token
\* is still the one stored when the request arrived.
C14_Witness ==
    \E c \in 1..MaxInFlight :
        /\ calls[c].failedAt = "exchange"
        /\ calls[c].response.status = 500
        /\ tokenManager.accessToken # 0
        /\ tokenManager = calls[c].tokenAtStart

\* The records of the catalog, in order.
WholeCatalog ==
    [i \in 1..upstream.count |-> CatalogFeed(i, upstream.foreign)]

\* C15: the pages are requested at offsets 0, 1000, 2000, ...; the loop ends
\* with the first page of fewer than 1000 records, and fetchAllGbfsFeeds
\* returns the records of all pages in request order.
C15_PaginationConcatenates ==
    \A c \in 1..MaxInFlight :
        LET call == calls[c] IN
        /\ \A k \in 1..Len(call.offsets) : call.offsets[k] = (k - 1) * 1000
        /\ call.pc = "page" =>
              /\ call.offset = call.offsets[Len(call.offsets)]
              /\ call.allFeeds = SubSeq(WholeCatalog, 1, call.offset)
        /\ call.pc = "done" /\ call.response.status = 200 /\ ~call.response.cache_hit =>
              /\ Len(call.offsets) = (upstream.count \div 1000) + 1
              /\ call.allFeeds = WholeCatalog

\* A request has ended after pages of 1000, 1000 and 400 records: three
\* page requests, 2400 records.
C15_Witness ==
    \E c \in 1..MaxInFlight :
        /\ calls[c].pc = "done"
        /\ calls[c].offsets = <<0, 1000, 2000>>
        /\ Len(calls[c].allFeeds) = 2400

\* C16: a step in which a page of a request is answered with a non-success
\* status answers 500 and leaves the catalog cache as it was; the cache
\* never holds anything but the processed whole catalog.
C16_PageFailureLeavesCache ==
    [][/\ \A c \in 1..MaxInFlight :
             calls'[c] # calls[c] /\ calls'[c].failedAt = "page"
                => /\ calls'[c].pc = "done"
                   /\ calls'[c].response.status = 500
                   /\ feedsCache' = feedsCache
       /\ feedsCache' # feedsCache =>
             /\ feedsCache'.present
             /\ feedsCache'.data = processFeeds(WholeCatalog)]_vars

\* The third page of a request failed while a catalog was cached, and the
\* cache is the one of the request's arrival.
C16_Witness ==
    \E c \in 1..MaxInFlight :
        /\ calls[c].failedAt = "page"
        /\ Len(calls[c].offsets) = 3
        /\ calls[c].cachedAtStart
        /\ feedsCache.present
        /\ feedsCache.timestamp = calls[c].stampAtStart

\* A catalog less than six hours old was cached when the request arrived.
FreshAtStart(call) ==
    call.cachedAtStart /\ call.t0 - call.stampAtStart < 6 * 60 * MINUTE

\* C17: a request is answered from the cache, with cache_hit true and no
\* upstream request, exactly when force_refresh is not set and a catalog
\* less than six hours old is cached; any other request that is answered 200
\* has fetched the catalog, stored the processed whole and has cache_hit
\* false.
C17_CacheHitIffFresh ==
    \A c \in 1..MaxInFlight :
        LET call == calls[c] IN
        call.pc # "idle" =>
            IF ~call.forceRefresh /\ FreshAtStart(call)
            THEN /\ call.pc = "done"
                 /\ call.response.status = 200
                 /\ call.response.cache_hit
                 /\ call.response.systems = processFeeds(WholeCatalog)
                 /\ call.exchanges = 0
                 /\ call.offsets = <<>>
            ELSE /\ ~call.response.cache_hit
                 /\ call.response.status = 200 =>
                       /\ call.offsets # <<>>
                       /\ call.response.systems = processFeeds(call.allFeeds)
                       /\ feedsCache.present
                       /\ feedsCache.data = call.response.systems
                       /\ feedsCache.timestamp >= call.t0

\* A request arrived when the cached catalog was one minute short of six
\* hours old and was answered from the cache.
C17_Witness ==
    \E c \in 1..MaxInFlight :
        /\ calls[c].cachedAtStart
        /\ calls[c].t0 - calls[c].stampAtStart = 359 * MINUTE
        /\ calls[c].response.cache_hit

\* The entry carries both a string name and a string url.
HasStringNameAndUrl(feed) ==
    feed.kind = "object" /\ feed.name.t = "string" /\ feed.url.t = "string"

\* The feed map of a feed list: the names of its entries with a string name
\* and a string url, each with the url of the last such entry of the name.
NamesOfList(list) ==
    {list[i].name.s : i \in {j \in 1..Len(list) : HasStringNameAndUrl(list[j])}}
UrlInList(list, n) ==
    LET at == {i \in 1..Len(list) : HasStringNameAndUrl(list[i]) /\ list[i].name.s = n}
    IN list[CHOOSE i \in at : \A j \in at : j <= i].url.s
MapOfList(list) == [n \in NamesOfList(list) |-> UrlInList(list, n)]

\* The document after the envelope is unwrapped, and its keys in the order
\* of the scan: the priority languages, then the keys present.
Unwrapped(doc) == GbfsContent(doc)
ScanOrder(doc) == AllLangKeys(Unwrapped(doc).pairs)

\* The language yields at least one accepted feed.
Yields(langData) ==
    /\ langData.kind = "object"
    /\ langData.feeds.kind = "array"
    /\ NamesOfList(langData.feeds.list) # {}

\* The positions in the scan order of the languages that yield feeds.
Yielding(doc) ==
    {i \in 1..Len(ScanOrder(doc)) : Yields(Lookup(Unwrapped(doc).pairs, ScanOrder(doc)[i]))}

\* The name beside a feed list, or the fallback name when there is none.
NameOr(name) == IF DfTruthy(name) THEN name ELSE FallbackName

\* C18: the feed map and the name are those of the first language in scan
\* order that yields an accepted feed; the root-level feed list is used
\* only when no language yields feeds.
C18_FirstYieldingLanguageWins ==
    dfResult.state = "returned" =>
        IF Yielding(dfDoc) # {}
        THEN LET first == CHOOSE i \in Yielding(dfDoc) : \A j \in Yielding(dfDoc) : i <= j
                 langData == Lookup(Unwrapped(dfDoc).pairs, ScanOrder(dfDoc)[first])
             IN /\ dfResult.discoveredFeedUrls = MapOfList(langData.feeds.list)
                /\ dfResult.nameFromGbfsJson = NameOr(langData.name)
        ELSE Unwrapped(dfDoc).feeds.kind = "array" =>
                dfResult.discoveredFeedUrls = MapOfList(Unwrapped(dfDoc).feeds.list)

\* C19: discoverFeeds never throws, and when it finds no feeds it returns
\* the empty feed map with the fallback name.
C19_NoFeedsGivesFallbackName ==
    /\ dfResult.state # "threw"
    /\ dfResult.state = "returned" /\ Keys(dfResult.discoveredFeedUrls) = {}
          => dfResult.nameFromGbfsJson = FallbackName

\* The feed lists of a document.
ListsOfPairs(pairs) ==
    {pairs[i].value.feeds.list : i \in 1..Len(pairs)}
FeedLists(doc) ==
    {doc.feeds.list, doc.data.feeds.list}
    \cup ListsOfPairs(doc.langs) \cup ListsOfPairs(doc.data.langs)

C21_ClassifyIsTotal ==
    clResult \notin {"pending", "idle"} =>
        /\ clResult \in {"station_based", "free_floating", "unknown"}
        /\ (/\ ~HasScooterType(clVt)
            /\ ~({"station_information", "station_status"} \subseteq Keys(clFeeds)))
              => clResult = IF {"vehicle_status", "free_bike_status"} \cap Keys(clFeeds) # {}
                            THEN "free_floating" ELSE "unknown"

\* The sum of the numbers f[1], ..., f[n].
RECURSIVE SumTo(_, _)
SumTo(f, n) == IF n = 0 THEN 0 ELSE f[n] + SumTo(f, n - 1)

\* A counter of a station: its value, zero when it is absent.
Counter(x) == IF x.isNum THEN x.v ELSE 0

\* The vehicles available at a station: the itemized counts when the list
\* is present, else the bike (or generic-vehicle) and e-bike counters.
AvailableAt(station) ==
    IF station.isNull THEN 0
    ELSE IF station.vehicle_types_available.k = "array"
    THEN LET list == station.vehicle_types_available.list IN
         SumTo([i \in 1..Len(list) |-> IF list[i].isNull THEN 0 ELSE list[i].count],
               Len(list))
    ELSE (IF station.num_bikes_available.isNum THEN station.num_bikes_available.v
          ELSE Counter(station.num_vehicles_available))
         + Counter(station.num_ebikes_available)

DisabledAt(station) ==
    IF station.isNull THEN 0
    ELSE Counter(station.num_bikes_disabled) + Counter(station.num_vehicles_disabled)

DocksAt(station) ==
    IF station.isNull THEN 0 ELSE Counter(station.num_docks_available)

\* The document of the example: two stations, neither with a station_id.
ExampleStations ==
    StatusDoc(Arr(<<ExampleStation1(StationIdAbsent), ExampleStation2(StationIdAbsent)>>),
              ArrAbsent, ArrAbsent)

\* C22: for a document with a stations array the normalizer returns the
\* sums of the available, disabled and dock counters over the stations,
\* absent counters as zero, and the number of distinct station ids, with
\* total >= available; the example gives available 5, total 6, docks 9 and
\* stationCount 2.
C22_StationSums ==
    (nzResult.state = "done" /\ nzFeed = "station_status" /\ nzDoc.stations.k = "array") =>
        LET list == nzDoc.stations.list
            available == SumTo([i \in 1..Len(list) |-> AvailableAt(list[i])], Len(list))
            disabled == SumTo([i \in 1..Len(list) |-> DisabledAt(list[i])], Len(list))
            docks == SumTo([i \in 1..Len(list) |-> DocksAt(list[i])], Len(list))
            ids == {list[i].station_id : i \in {j \in 1..Len(list) : ~list[j].isNull}}
        IN /\ nzResult.norm.k = "ok"
           /\ nzResult.norm.available = available
           /\ nzResult.norm.total = available + disabled
           /\ nzResult.norm.total >= nzResult.norm.available
           /\ nzResult.norm.docks = docks
           /\ StationIdAbsent \notin ids => nzResult.norm.stations = Cardinality(ids)
           /\ nzDoc = ExampleStations =>
                  /\ nzResult.norm.available = 5
                  /\ nzResult.norm.total = 6
                  /\ nzResult.norm.docks = 9
                  /\ nzResult.norm.stations = 2

\* The four counts of the operator's entry.
EntryCounts(entry) ==
    {entry.totalVehicleCount, entry.vehicleCount, entry.stationCount,
     entry.docksAvailableAtStations}

\* C23: the station normalizer returns null exactly when the stations field
\* is absent or not an array; an empty stations array gives zero counts; the
\* operator's counts are null in the first case and numbers in the second.
C23_NullOnlyWithoutStationsArray ==
    (nzResult.state = "done" /\ nzFeed = "station_status") =>
        /\ nzResult.norm.k = "null" <=> nzDoc.stations.k # "array"
        /\ nzDoc.stations = Arr(<<>>) =>
              /\ nzResult.norm = [k |-> "ok", total |-> 0, available |-> 0,
                                  docks |-> 0, stations |-> 0]
              /\ EntryCounts(nzResult.entry) = {CountOf(0)}
        /\ nzResult.norm.k = "null" => EntryCounts(nzResult.entry) = {CountNull}
        /\ nzResult.norm.k = "ok" => \A c \in EntryCounts(nzResult.entry) : c.k = "num"

\* A document whose stations field is not an array: the normalizer returns
\* null and the counts of the operator are null.
C23_Witness ==
    /\ nzResult.state = "done"
    /\ nzFeed = "station_status"
    /\ nzDoc.stations = ArrNonArray
    /\ nzResult.norm.k = "null"
    /\ nzResult.entry.vehicleCount = CountNull

\* The array a free-floating document is counted from: vehicles, or bikes
\* when vehicles is absent.
CountedArray(doc) ==
    IF doc.vehicles.k = "array" THEN doc.vehicles
    ELSE IF doc.vehicles.k = "absent" THEN doc.bikes
    ELSE ArrAbsent

\* C24: for a free-floating document with a vehicles array, or without
\* vehicles and with a bikes array, total is the length of the array and
\* available the number of its entries whose is_disabled and is_reserved
\* are both false, so available <= total; the example gives 3 and 1.
C24_AvailableAreExplicitlyFree ==
    (/\ nzResult.state = "done"
     /\ nzFeed \in {"vehicle_status", "free_bike_status"}
     /\ CountedArray(nzDoc).k = "array") =>
        LET list == CountedArray(nzDoc).list
            free == {i \in 1..Len(list) :
                       /\ ~list[i].isNull
                       /\ list[i].is_disabled = "false"
                       /\ list[i].is_reserved = "false"}
        IN /\ nzResult.norm.k = "ok"
           /\ nzResult.norm.total = Len(list)
           /\ nzResult.norm.available = Cardinality(free)
           /\ nzResult.norm.available <= nzResult.norm.total
           /\ list = <<Vehicle("false", "false"), Vehicle("true", "false"),
                       Vehicle("absent", "absent")>>
                 => nzResult.norm.total = 3 /\ nzResult.norm.available = 1

\* C25: a status document that the normalizer returns null for gives the
\* operator a status error together with null counts.
C25_UnparsableStatusIsAnError ==
    (nzResult.state = "done" /\ nzResult.norm.k = "null") =>
        /\ nzResult.entry.feedError \notin {"absent", "null"}
        /\ nzResult.entry.totalVehicleCount = CountNull
        /\ nzResult.entry.vehicleCount = CountNull

\* C27: an item whose upstream response has a Content-Type that is not
\* JSON-compatible is reported with an error and null data, and its body is
\* never parsed.
C27_ContentTypeIsValidated ==
    \A r \in 1..Len(reqs) : \A i \in 1..Len(reqs[r].items) :
        LET item == reqs[r].items[i] IN
        item.contentType = "text/html" =>
            /\ ~item.parsed
            /\ item.st = "done" =>
                  /\ item.result.error # "null"
                  /\ item.result.data = "null"

\* C28: a request is answered 400 exactly when its body has no feeds list;
\* every request with a list is answered 200 with one result per item,
\* whatever the elements of the list.
C28_BadRequestIffNoList ==
    \A r \in 1..Len(reqs) :
        (reqs[r].method = "POST" /\ reqs[r].pc = "responded") =>
            /\ reqs[r].status = 400 <=> reqs[r].body # "array"
            /\ reqs[r].body = "array" =>
                  /\ reqs[r].status = 200
                  /\ Len(reqs[r].response) = Len(reqs[r].feeds)

\* The response the outcome of a request calls for: 408 when the answer
\* comes at or after the timeout, 502 for a network failure or a content
\* type that is not JSON, the upstream's status when it is no success, 200
\* otherwise.
PxExpected(req) ==
    IF req.sentAt - req.t0 >= PROXY_TIMEOUT_MS THEN 408
    ELSE IF req.outcome \in {"network", "bodyFailed"} THEN 502
    ELSE IF ~ResponseOk(req.upStatus) THEN req.upStatus
    ELSE IF ~JsonCompatible(req.contentType) THEN 502
    ELSE 200

\* C26: every GET request gets the one response its outcome calls for:
\* without a target URL 400 and no upstream request; otherwise, once the
\* 7-second timeout has passed (and a due timer has fired) the request is
\* answered, and an answered request carries the status of its outcome.
C26_EveryOutcomeHasItsResponse ==
    pxReq.method = "GET" =>
        /\ ~pxReq.hasTarget =>
              pxReq.pc = "responded" /\ pxReq.status = 400 /\ ~pxReq.fetched
        /\ (pxReq.hasTarget /\ pxNow - pxReq.t0 >= PROXY_TIMEOUT_MS /\ ~PxTimerDue) =>
              pxReq.pc = "responded"
        /\ (pxReq.hasTarget /\ pxReq.pc = "responded") =>
              pxReq.status = PxExpected(pxReq)

\* The orders in which a batch of n results can be handed to a phase.
Orders(n) ==
    {p \in [1..n -> 1..n] : \A i, j \in 1..n : p[i] = p[j] => i = j}

Permuted(results, p) == [i \in 1..Len(results) |-> results[p[i]]]

\* The state entries of the operators when a run over `operators` starts.
EntriesAtStart(operators) ==
    LoadingState([systemId \in Range(operators) |-> InitialData(systemId)], operators)

\* C29: results are attributed to operators by the key in their name, not by
\* their position: the run of a city with the results of each of its three
\* batches handed over in any order ends as the run did (it ends, or it
\* raises), with the same entry for every operator when it ends.
C29_ResultOrderIsIrrelevant ==
    \A r \in 1..Len(runs) :
        (runs[r].pc \in {"done", "rejected"} /\ ~runs[r].failed) =>
            LET operators == runs[r].operators
                atStart == EntriesAtStart(operators)
                dResults == Answer(DiscoveryFeeds(operators), world)
            IN \A pd \in Orders(Len(dResults)) :
                 LET discovered == ProcDiscovery(LocalStart, Permuted(dResults, pd),
                                                 operators)
                     oResults == Answer(discovered.optQ, world)
                 IN \A po \in Orders(Len(oResults)) :
                      LET processed == ProcOptional(discovered, Permuted(oResults, po))
                          reclassified == Reclassify(processed, processed.order)
                          sResults == Answer(reclassified.statusQ, world)
                      IN IF reclassified.thrown THEN runs[r].pc = "rejected"
                         ELSE \A ps \in Orders(Len(sResults)) :
                              LET final == ProcStatus(reclassified, Permuted(sResults, ps))
                              IN /\ final.thrown <=> runs[r].pc = "rejected"
                                 /\ ~final.thrown =>
                                      \A systemId \in Range(operators) :
                                         FinalUpdate(atStart, final.map, r)[systemId]
                                             = operatorDisplayData[systemId]

\* A run has ended whose status batch held the results of two operators
\* with different counts.
C29_Witness ==
    \E r \in 1..Len(runs) :
        /\ runs[r].pc = "done" /\ ~runs[r].failed
        /\ Len(runs[r].local.statusQ) >= 2
        /\ operatorDisplayData[SysA].totalVehicleCount
              # operatorDisplayData[SysAB].totalVehicleCount
        /\ operatorDisplayData[SysA].totalVehicleCount # CountNull
        /\ operatorDisplayData[SysAB].totalVehicleCount # CountNull

\* The entries a run over `operators` leaves when it starts from the initial
\* entries of the city and no batch fails as a whole.
CleanRunEntries(operators, w) ==
    FinalUpdate(EntriesAtStart(operators), RunPhases(operators, w).map, 0)

NoBatchFailed == \A q \in 1..Len(runs) : ~runs[q].failed

\* C30: the pipeline is deterministic and idempotent: whenever a run for the
\* selected city ends, no batch having failed as a whole, each operator's
\* verdict, counts and error fields are those a first run for the city on
\* the same upstream answers leaves, whether the city was run before or not.
C30_RunsAreIdempotent ==
    [][\A r \in 1..Len(runs) :
          (/\ runs[r].pc = "status" /\ runs'[r].pc = "done"
           /\ NoBatchFailed'
           /\ activeCityGroup.operators = runs[r].operators)
          => \A systemId \in Range(runs[r].operators) :
                Terminal(operatorDisplayData'[systemId])
                    = Terminal(CleanRunEntries(runs[r].operators, world)[systemId])]_vars

\* Two runs for the same city have ended, no batch failed, and the second
\* run wrote an operator's entry, with counts.
C30_Witness ==
    /\ Len(runs) = 2
    /\ runs[1].operators = runs[2].operators
    /\ runs[1].pc = "done" /\ runs[2].pc = "done"
    /\ NoBatchFailed
    /\ \E systemId \in DOMAIN operatorDisplayData :
          /\ operatorDisplayData[systemId].run = 2
          /\ operatorDisplayData[systemId].totalVehicleCount.k = "num"

\* C31: a request for a data type is answered with records of that data
\* type only, and its upstream pages are requested for that data type.
C31_OnlyRequestedDataType ==
    \A c \in DOMAIN calls :
        calls[c].method = "GET" =>
            /\ calls[c].pageType \in {"none", calls[c].dataType}
            /\ calls[c].response.status = 200 =>
                  \A i \in 1..Len(calls[c].response.systems) :
                      DataTypeOf(calls[c].response.systems[i]) = calls[c].dataType

\* A request that found the token expired made its own exchange, and holds
\* a token once the exchange has succeeded.
OwnExchange ==
    \A c \in DOMAIN calls :
        (/\ calls[c].pc \in {"token", "page"}
         /\ isTokenExpired(calls[c].tokenAtStart, calls[c].t0))
        => /\ calls[c].exchanges = 1
           /\ calls[c].pc = "page" => calls[c].accessToken # 0

\* The stored expiry is the one granted with the stored token (the token
\* granted at time t is written t + 1).
WholePair ==
    \/ tokenManager = NoToken
    \/ tokenManager.tokenExpiresAt - (tokenManager.accessToken - 1)
           \in {600 * 1000, DEFAULT_EXPIRES_IN * 1000}

\* C32: the refresh is not single-flight: every request that finds the
\* token expired makes its own exchange and gets a token, and the stored
\* token and expiry are always those of one exchange, the last that
\* succeeded.
C32_RedundantRefreshesStoreWholePairs ==
    [][/\ OwnExchange'
       /\ WholePair'
       /\ \A c \in DOMAIN calls :
             (calls[c].pc = "token" /\ calls'[c].pc = "page")
             => /\ tokenManager'.accessToken = calls'[c].accessToken
                /\ tokenManager'.accessToken = fsNow + 1]_vars

\* Two requests found the token expired, each made its exchange, and the
\* exchanges succeeded at different times; the stored token is the later.
C32_Witness ==
    /\ DOMAIN calls = 1..MaxCallers
    /\ \E c, d \in DOMAIN calls :
          /\ calls[c].pc = "page" /\ calls[d].pc = "page"
          /\ calls[c].exchanges = 1 /\ calls[d].exchanges = 1
          /\ calls[c].accessToken < calls[d].accessToken
          /\ calls[c].t0 < calls[d].accessToken
          /\ tokenManager.accessToken = calls[d].accessToken

\* The answer to a request of a method that is not the endpoint's own.
NoOpStatus(method) == IF method = "OPTIONS" THEN 200 ELSE 405

\* The token, the catalog cache and the feed-fetch cache.
ServerState == <<tokenManager, feedsCache, cache, stored>>

\* C33: on every endpoint, a request whose method is OPTIONS is answered 200
\* and one whose method is neither OPTIONS nor the endpoint's own is answered
\* 405, in the step it arrives, with no upstream request issued and the
\* token, the catalog cache and the feed-fetch cache left as they were.
C33_PreflightAndForeignMethodsAreNoOps ==
    [][/\ \A c \in DOMAIN calls :
             (/\ calls[c].pc \in {"idle", "done"}
              /\ calls'[c] # calls[c] /\ calls'[c].pc # "idle"
              /\ calls'[c].method # "GET")
             => /\ calls'[c].pc = "done"
                /\ calls'[c].response.status = NoOpStatus(calls'[c].method)
                /\ calls'[c].exchanges = 0 /\ calls'[c].offsets = <<>>
                /\ ServerState' = ServerState
       /\ (Len(reqs') > Len(reqs) /\ reqs'[Len(reqs')].method # "POST")
             => LET req == reqs'[Len(reqs')] IN
                /\ req.pc = "responded"
                /\ req.status = NoOpStatus(req.method)
                /\ req.issued = 0
                /\ ServerState' = ServerState
       /\ (pxReq.pc \in {"idle", "responded"} /\ pxReq' # pxReq
              /\ pxReq'.method # "GET")
             => /\ pxReq'.pc = "responded"
                /\ pxReq'.status = NoOpStatus(pxReq'.method)
                /\ ~pxReq'.fetched
                /\ ServerState' = ServerState
       /\ (cfReq' # cfReq /\ cfReq'.method # "GET")
             => /\ cfReq'.status = NoOpStatus(cfReq'.method)
                /\ ServerState' = ServerState]_vars

\* With a token, a catalog and a batch stored, the endpoints have answered
\* a preflight and a request of a foreign method.
C33_Witness ==
    /\ tokenManager # NoToken /\ feedsCache.present /\ cache # <<>>
    /\ \E c \in DOMAIN calls :
          calls[c].method = "POST" /\ calls[c].response.status = 405
    /\ \E r \in 1..Len(reqs) : reqs[r].method = "OPTIONS" /\ reqs[r].status = 200
    /\ pxReq.method = "OPTIONS" /\ pxReq.status = 200
    /\ cfReq.method = "POST" /\ cfReq.status = 405

\* C34: the callback runs only for the latest call, with its arguments, no
\* earlier than that call's delay after it and at most once for it; every
\* call cancels the pending timer, so at most one timer is pending.
C34_DebouncedRunsOncePerQuietPeriod ==
    /\ Cardinality(dbTimers) <= 1
    /\ \A i \in 1..Len(dbRuns) :
          LET run == dbRuns[i]
              call == dbCalls[run.call]
          IN /\ run.call = run.calls
             /\ run.args = call.args
             /\ run.t >= call.t + call.delay
             /\ \A j \in 1..Len(dbRuns) : dbRuns[j].call = run.call => j = i

\* The callback has run for a call that cancelled the pending timer of an
\* earlier call with other arguments.
C34_Witness ==
    \E i \in 1..Len(dbRuns) :
        LET k == dbRuns[i].call IN
        /\ k >= 2
        /\ dbCalls[k - 1].args # dbCalls[k].args
        /\ dbCalls[k - 1].delay > 0
        /\ dbCalls[k].t < dbCalls[k - 1].t + dbCalls[k - 1].delay
        /\ \A j \in 1..Len(dbRuns) : dbRuns[j].call # k - 1

\* The requests of a status queue that are for an operator, in queue order.
EntriesOf(queue, systemId) ==
    SelectSeq(queue, LAMBDA feed : SystemIdOf(feed.name) = systemId)

\* The status request that matches an operator's current verdict in a run's
\* local state: none, or the one of the verdict's family, vehicle_status
\* before free_bike_status.
MatchingRequest(st, systemId) ==
    LET data == st.map[systemId] IN
    IF data.feedsSet
    THEN StatusFeedFor(systemId, data.feedsFromDiscovery, data.operatorType)
    ELSE <<>>

\* C35: from the end of the discovery pass until the status batch is issued,
\* the status queue holds for every operator at most one request, the one
\* matching its current verdict, and no request for anything else; when the
\* reclassification changes a verdict the operator's request becomes the one
\* of the new verdict, and the requests of the operators whose verdict did
\* not change are the same as before.
C35_StatusQueueFollowsVerdict ==
    [][\A r \in 1..Len(runs') :
          LET st == runs'[r].local IN
          runs'[r].pc \in {"optional", "status", "rejected"} =>
             /\ \A i \in 1..Len(st.statusQ) :
                   SystemIdOf(st.statusQ[i].name) \in DOMAIN st.map
             /\ \A systemId \in DOMAIN st.map :
                   /\ Len(EntriesOf(st.statusQ, systemId)) <= 1
                   /\ EntriesOf(st.statusQ, systemId) = MatchingRequest(st, systemId)
                   /\ (/\ runs[r].pc = "optional"
                       /\ st.map[systemId].operatorType
                             = runs[r].local.map[systemId].operatorType)
                      => EntriesOf(st.statusQ, systemId)
                             = EntriesOf(runs[r].local.statusQ, systemId)]_vars

\* The status batch is about to be issued for two operators: the first was
\* reclassified from station_based to free_floating and its station_status
\* request replaced by a vehicle_status request in a map that also has
\* free_bike_status; the second keeps its verdict and its request.
C35_Witness ==
    \E r \in 1..Len(runs) :
        /\ runs[r].pc = "status"
        /\ \E s1, s2 \in DOMAIN runs[r].local.map :
              LET st == runs[r].local
                  d1 == st.map[s1]
                  d2 == st.map[s2]
              IN /\ s1 # s2
                 /\ d1.provisionalType = "station_based"
                 /\ d1.operatorType = "free_floating"
                 /\ HasFeed(d1.feedsFromDiscovery, "station_status")
                 /\ HasFeed(d1.feedsFromDiscovery, "free_bike_status")
                 /\ Len(EntriesOf(st.statusQ, s1)) = 1
                 /\ FeedTypeOf(EntriesOf(st.statusQ, s1)[1].name) = "vehicle_status"
                 /\ d2.operatorType = d2.provisionalType
                 /\ Len(EntriesOf(st.statusQ, s2)) = 1

\* The fetch of an operator's optional feed failed in a run.
OptionalFailed(run, systemId, feedType) ==
    \E i \in 1..Len(run.optional) :
        /\ run.optional[i].feed_name = MakeName(systemId, feedType)
        /\ run.optional[i].kind = "error"

\* C36: once the optional batch of a run has returned, an operator with a
\* failed system_information or vehicle_types fetch carries no error from it
\* (discoveryError and feedError are as the discovery pass left them until
\* the status results arrive) and no value of the failed feed; with a failed
\* vehicle_types fetch it keeps its provisional verdict and the status
\* request queued for it; its status request is part of the status batch
\* that is issued, and when the run ends its counts come from that feed or
\* the entry carries the status feed's own error.
C36_FailedOptionalFetchIsNotFatal ==
    \A r \in 1..Len(runs) :
        runs[r].pc \in {"status", "done", "rejected"} =>
            \A systemId \in DOMAIN runs[r].local.map :
                LET run == runs[r]
                    d == run.local.map[systemId]
                    vtFailed == OptionalFailed(run, systemId, "vehicle_types")
                    siFailed == OptionalFailed(run, systemId, "system_information")
                    request == StatusFeedFor(systemId, d.feedsFromDiscovery,
                                             d.operatorType)
                IN /\ siFailed => d.operatorUrlFromSystemInfo = "absent"
                   /\ vtFailed =>
                         /\ d.vehicleTypesRaw = VtUndefined
                         /\ d.primaryFormFactor = "absent"
                         /\ d.operatorType = d.provisionalType
                         /\ EntriesOf(run.local.statusQ, systemId) = request
                   /\ (vtFailed \/ siFailed) =>
                         /\ d.discoveryError = "absent"
                         /\ run.pc = "status" => d.feedError = "absent"
                         /\ \A i \in 1..Len(request) : request[i] \in Range(run.asked)
                         /\ (run.pc = "done" /\ request # <<>>) =>
                                \/ d.countsFrom = FeedTypeOf(request[1].name)
                                \/ d.feedError # "absent"

\* C37: at most one catalog request is in flight, and a caller that arrives
\* while a request is in flight is handed the promise of that request.
C37_LoaderIsSingleFlight ==
    /\ Cardinality(LdInFlight) <= 1
    /\ \A c \in 1..Len(ldCallers) :
          ldCallers[c].inFlight # {} =>
              /\ ldCallers[c].kind = "promise"
              /\ ldCallers[c].promise \in ldCallers[c].inFlight

\* The complete list: the gbfs records of the whole catalog, in order.
CompleteList == processFeeds(WholeCatalog)

\* C38: the catalog cache, once written, holds the complete processed list
\* whatever the limits of the requests that wrote it, and every request that
\* is answered 200, from the cache or not, returns the complete list when it
\* has no limit and its first L entries (all of them when there are fewer)
\* when it has limit L > 0.
C38_LimitOnlyTruncatesTheResponse ==
    /\ feedsCache.present => feedsCache.data = CompleteList
    /\ \A c \in DOMAIN calls :
          LET call == calls[c] IN
          (call.method = "GET" /\ call.pc = "done" /\ call.response.status = 200) =>
              /\ call.limit = 0 => call.response.systems = CompleteList
              /\ call.limit > 0 =>
                    /\ Len(call.response.systems) = Min(call.limit, Len(CompleteList))
                    /\ \A i \in 1..Len(call.response.systems) :
                          call.response.systems[i] = CompleteList[i]
              /\ call.response.total_count = Len(call.response.systems)

\* A request with limit 1 fetched a catalog of three gbfs records, was
\* answered with the first of them and stored all three in the cache.
C38_Witness ==
    \E c \in DOMAIN calls :
        /\ calls[c].pc = "done" /\ calls[c].limit = 1
        /\ calls[c].response.status = 200 /\ ~calls[c].response.cache_hit
        /\ calls[c].response.systems = <<CompleteList[1]>>
        /\ Len(CompleteList) = 3
        /\ feedsCache.present /\ feedsCache.timestamp >= calls[c].t0
        /\ feedsCache.data = CompleteList

\* The place of an operator in the operator list of the active city.
EncounterOf(systemId) ==
    CHOOSE i \in 1..Len(activeCityGroup.operators) :
        activeCityGroup.operators[i] = systemId

\* The total shown for an operator.
TotalOf(systemId) == operatorDisplayData[systemId].totalVehicleCount

\* C39: once no operator of the active city is loading, the cards are the
\* city's operators that have display data, each once, sorted by total fleet
\* size descending; no operator without a total comes before one with a
\* total, and operators with equal totals, or both without, are in the order
\* of the city's operator list.
C39_CardsSortedByFleetNullsLast ==
    (activeCityGroup # NoCity /\ ~isAnyOperatorLoading) =>
        LET shown == OperatorCards IN
        /\ Range(shown) = Range(activeCityGroup.operators) \cap DOMAIN operatorDisplayData
        /\ \A i, j \in 1..Len(shown) :
              i < j =>
                 /\ shown[i] # shown[j]
                 /\ Nullish(TotalOf(shown[i])) => Nullish(TotalOf(shown[j]))
                 /\ (~Nullish(TotalOf(shown[i])) /\ ~Nullish(TotalOf(shown[j])))
                       => TotalOf(shown[i]).v >= TotalOf(shown[j]).v
                 /\ (\/ Nullish(TotalOf(shown[i])) /\ Nullish(TotalOf(shown[j]))
                     \/ /\ ~Nullish(TotalOf(shown[i])) /\ ~Nullish(TotalOf(shown[j]))
                        /\ TotalOf(shown[i]).v = TotalOf(shown[j]).v)
                       => EncounterOf(shown[i]) < EncounterOf(shown[j])

\* No operator is loading and the second operator of the city, with the
\* larger fleet, is shown before the first.
C39_Witness ==
    /\ activeCityGroup = CityX /\ ~isAnyOperatorLoading
    /\ OperatorCards = <<SysAB, SysA>>
    /\ ~Nullish(TotalOf(SysA)) /\ ~Nullish(TotalOf(SysAB))
    /\ TotalOf(SysAB).v > TotalOf(SysA).v /\ TotalOf(SysA).v > 0

====
